---- MODULE Spec2Model ----
(***************************************************************************)
(* Model of the X11 presentation backend of the Mali Vulkan ICD wrapper:   *)
(*   - wsi::x11::swapchain (image pool, acquire/present, background        *)
(*     thread, teardown), src/src/wsi/x11/sdl_wayland_swapchain_wrapper.hpp*)
(*   - wsi::x11::xwayland_dmabuf_bridge_client (bridge wire client),       *)
(*     src/src/wsi/x11/xwayland_dmabuf_bridge.cpp                          *)
(*   - wsi::external_memory (plane file descriptors), src/unnamed/part_004 *)
(*                                                                         *)
(* The specifications share the variables:                                 *)
(*   Spec        the swapchain with its bridge client and its threads      *)
(*   SpecClient  one bridge client driven directly, call by call           *)
(*   SpecExtMem  one external-memory descriptor                            *)
(*   SpecWire    one present_frame call, system call by system call        *)
(*   SpecWireFair  SpecWire with a running thread and a running clock      *)
(*   SpecPacing  creation and presents of one swapchain against the clock  *)
(***************************************************************************)
EXTENDS Integers, Sequences, FiniteSets, TLC

(***************************************************************************)
(* Bounds of the model                                                     *)
(***************************************************************************)
\* largest number of swapchain images
MaxImages == 3
\* number of present_frame calls explored on one bridge client
MaxCalls == 4
\* number of API events remembered in hist before it collapses
MaxHist == 4
\* number of distinct dma-buf file descriptors an allocation can return
NumFds == 2
\* largest number of planes of an external-memory descriptor
MaxPlanes == 4
\* number of dropped packets counted in one feedback wait
MaxDiscards == 2
\* presents explored on one swapchain against the steady clock
MaxPresents == 3
\* nanoseconds the steady clock moves in one step of the model
ClockStepNs == 10000000
\* time up to which the application lets the clock run between its calls
MaxTimeNs == 20000000
\* largest number of swapchains one vkQueuePresentKHR call names
MaxSwapchains == 3

(***************************************************************************)
(* Program constants                                                       *)
(***************************************************************************)
XWL_DMABUF_BRIDGE_MAX_PLANES == 4
ProbeTimeoutMs == 100
DefaultFeedbackTimeoutMs == 250
\* 0x48454c4f ("HELO") as two 16-bit halves
XWL_DMABUF_BRIDGE_HELLO_FRAME_ID == [hi |-> 18501, lo |-> 19535]
\* wsi::surface_properties::MAX_SWAPCHAIN_IMAGE_COUNT is the largest image
\* count a swapchain can have; the model scales it to its own largest count
MAX_SWAPCHAIN_IMAGE_COUNT == MaxImages

(***************************************************************************)
(* uint32_t values.  TLC integers are 32-bit signed, so a uint32_t is kept *)
(* as its two 16-bit halves and arithmetic wraps at 2^32.                  *)
(***************************************************************************)
Half == 65536

U32(h, l) == [hi |-> h, lo |-> l]

U32Zero == U32(0, 0)

\* v + 1 in uint32_t arithmetic
U32Inc(v) ==
  IF v.lo = Half - 1
    THEN U32((v.hi + 1) % Half, 0)
    ELSE U32(v.hi, v.lo + 1)

VARIABLES
  \* ---- process and swapchain (wsi::x11::swapchain) ----
  env_bridge,                        \* XWL_DMABUF_BRIDGE is set to a socket path
  g_disable_xwayland_bridge_runtime, \* process-wide atomic flag
  sc_state,                          \* "none" | "live" | "destroyed" | "terminated"
  numImages,                         \* m_swapchain_images.size()
  status,                            \* m_swapchain_images[i].status
  m_use_xwayland_bridge,
  m_bridge_pending_unpresent,        \* std::deque<uint32_t>
  error_state,                       \* swapchain_base error state
  m_present_event_thread_run,
  waiters,                           \* threads blocked in m_thread_status_cond.wait
  bg_pc,                             \* present_event_thread
  acq_pc, acq_timeout, gfb_result,
  pres_pc, pres_image, present_result, api_present_result,
  dtor_pc,
  app_owned,                         \* images the application holds (acquired, not yet presented)
  acq_streak,                        \* successful acquires since the last present activity
  hist,                              \* completed API events since creation (capped)
  \* ---- bridge client (xwayland_dmabuf_bridge_client) ----
  client,                            \* the members of the client, or NoClient
  ncalls,                            \* present_frame calls made on this client
  frame_ids,                         \* frame ids assigned by the last two present_frame calls
  wire,                              \* packets sent in full by the last client call
  last_ret,                          \* return value of the last client call
  last_fb,                           \* feedback wait of the last present_frame call
  fb_timed_out,                      \* a feedback wait of a present_frame call timed out:
                                     \* "no" | "this_connection" | "earlier_connection"
  \* ---- external memory (wsi::external_memory) ----
  m_buffer_fds,                      \* plane file descriptors, plane p at index p + 1
  m_num_planes,
  alloc_fds,                         \* the plane fds as the allocator returned them
  closed,                            \* close() calls made by cleanup, in order
  em_pc,
  m_num_memories,
  m_memories,                        \* the memory objects imported, in the order of m_memories[]
  imports,                           \* the import_plane_memory calls made, in order
  binds,                             \* the bind infos handed to the driver
  \* ---- one present_frame call, system call by system call ----
  w_pc,                              \* position of the call
  w_frame_id,                        \* packet.reserved of the FRAME packet of the call
  w_expired,                         \* steady_clock::now() >= deadline of the running wait
  w_event,                           \* what the last system call of the call gave
  w_ret,                             \* return value of the last wait_for_feedback
  w_flags,                           \* feedback_flags of the last wait_for_feedback
  w_discarded,                       \* packets the running wait has dropped (capped)
  \* ---- present mode and bridge present pacing ----
  now,                               \* std::chrono::steady_clock::now(), in ns
  fps_env,                           \* XWL_DMABUF_BRIDGE_MAX_FPS as strtoul reads it
  allow_non_fifo_env,                \* WSI_ALLOW_NON_FIFO_PRESENT_MODE=1 is set
  allow_mailbox_env,                 \* XWL_DMABUF_BRIDGE_ALLOW_MAILBOX is set, not to "0"
  app_present_mode,                  \* pSwapchainCreateInfo->presentMode
  m_present_mode,
  m_bridge_present_interval_ns,
  m_bridge_next_present_time,
  m_bridge_present_rate_limit_initialized,
  p_pc,                              \* position of the presenting thread
  p_presents,                        \* present_image calls made
  p_frame_time,                      \* the clock when the last FRAME packet was sent
  p_call_time,                       \* the clock at the entry of the last pacing sleep
  p_scheduled,                       \* m_bridge_next_present_time at that entry
  p_slept,                           \* the last pacing call slept
  \* ---- one wsi_layer_vkQueuePresentKHR call ----
  qp_pc,                             \* "unused" | "called" | "returned"
  qp_swapchain_results,              \* what queue_present of each listed swapchain returns
  qp_has_results,                    \* pPresentInfo->pResults != nullptr
  qp_wait_result,                    \* what submit_wait_request returns
  qp_pResults,                       \* the contents of pPresentInfo->pResults
  qp_attempted,                      \* the swapchains whose queue_present was called, in order
  qp_ret                             \* the return value of the call

scVars == <<env_bridge, g_disable_xwayland_bridge_runtime, sc_state, numImages, status,
            m_use_xwayland_bridge, m_bridge_pending_unpresent, error_state,
            m_present_event_thread_run, waiters, bg_pc, acq_pc, acq_timeout, gfb_result,
            pres_pc, pres_image, present_result, api_present_result, dtor_pc,
            app_owned, acq_streak, hist>>

clVars == <<client, ncalls, frame_ids, wire, last_ret, last_fb,
            fb_timed_out>>

emVars == <<m_buffer_fds, m_num_planes, alloc_fds, closed, em_pc, m_num_memories,
            m_memories, imports, binds>>

wireVars == <<w_pc, w_frame_id, w_expired, w_event, w_ret, w_flags, w_discarded>>

paceVars == <<now, fps_env, allow_non_fifo_env, allow_mailbox_env, app_present_mode,
              m_present_mode, m_bridge_present_interval_ns, m_bridge_next_present_time,
              m_bridge_present_rate_limit_initialized, p_pc, p_presents, p_frame_time,
              p_call_time, p_scheduled, p_slept>>

qpVars == <<qp_pc, qp_swapchain_results, qp_has_results, qp_wait_result, qp_pResults,
            qp_attempted, qp_ret>>

vars == <<scVars, clVars, emVars, wireVars, paceVars, qpVars>>

(***************************************************************************)
(* Bridge wire client                                                      *)
(***************************************************************************)
NoClient == [null |-> TRUE]

SockFd == 3

SocketPath == "bridge.sock"

\* the members after the constructor, for a feedback timeout read from the
\* environment (xwayland_dmabuf_bridge.cpp:94-113, part_003:63-69)
NewClient(path, timeout_ms, first_id) ==
  [m_socket_path |-> path,
   m_socket_fd |-> -1,
   m_connect_failed |-> FALSE,
   m_feedback_probe_done |-> FALSE,
   m_feedback_sync_enabled |-> FALSE,
   m_feedback_timeout_ms |-> timeout_ms,
   m_next_frame_id |-> first_id]

is_enabled(c) == c.m_socket_path # ""

\* outcomes of the system calls a client call can meet
ConnectOutcomes == {"ok", "socket_failed", "path_too_long", "connect_failed"}

SendOutcomes == {"ok", "error", "short"}

FeedbackFlags == {"FAILED", "CAP_SYNC"}

FeedbackOutcomes ==
  {[kind |-> "match", flags |-> f] : f \in SUBSET FeedbackFlags}
    \cup {[kind |-> "timeout", flags |-> {}], [kind |-> "io_error", flags |-> {}]}

IOOutcomes ==
  [connect : ConnectOutcomes, hello : SendOutcomes, probe : FeedbackOutcomes,
   send : SendOutcomes, fb : FeedbackOutcomes]

HelloPacket == [op |-> "HELLO", id |-> XWL_DMABUF_BRIDGE_HELLO_FRAME_ID]

FramePacket(id) == [op |-> "FRAME", id |-> id]

\* variant: the packet of stop_stream carries the FRAME opcode
StopPacketAsFrame == [op |-> "FRAME", id |-> U32Zero]

StopPacket == [op |-> "STOP", id |-> U32Zero]

\* variant: the socket is closed and the feedback flags are left alone
reset_connection_keeps_flags(c) == [c EXCEPT !.m_socket_fd = -1]

reset_connection(c) ==
  [c EXCEPT !.m_socket_fd = -1,
            !.m_feedback_probe_done = FALSE,
            !.m_feedback_sync_enabled = FALSE]

\* wait_for_feedback: the poll/recv loop, by its outcome
wait_for_feedback(c, fb) ==
  IF c.m_socket_fd < 0
    THEN [c |-> c, ret |-> FALSE, flags |-> {}]
    ELSE CASE fb.kind = "match" -> [c |-> c, ret |-> TRUE, flags |-> fb.flags]
           [] fb.kind = "timeout" -> [c |-> c, ret |-> FALSE, flags |-> {}]
           [] OTHER -> [c |-> reset_connection(c), ret |-> FALSE, flags |-> {}]

\* the sendmsg call of send_packet and the handling of its result; sendmsg on
\* an invalid descriptor fails
sendmsg_packet(c, pkt, outcome) ==
  IF c.m_socket_fd >= 0 /\ outcome = "ok"
    THEN [c |-> c, ret |-> TRUE, tx |-> <<pkt>>]
    ELSE [c |-> reset_connection(c), ret |-> FALSE, tx |-> <<>>]

\* variant: any FEEDBACK reply to HELLO enables feedback sync
probe_enables_sync_always(flags) == TRUE

\* feedback_flags & XWL_DMABUF_BRIDGE_FEEDBACK_CAP_SYNC
probe_enables_sync(flags) == "CAP_SYNC" \in flags

\* variant: the probe is skipped
probe_feedback_support_skipped(c, io) == [c |-> c, ret |-> FALSE, tx |-> <<>>]

\* probe_feedback_support; its send_packet call finds the socket connected,
\* so ensure_connected returns at once and the packet goes to sendmsg
probe_feedback_support(c, io) ==
  LET after_wait(s, w) ==
        IF ~w.ret
          THEN [c |-> w.c, ret |-> FALSE, tx |-> s.tx]
          ELSE IF probe_enables_sync(w.flags)
                 THEN [c |-> [w.c EXCEPT !.m_feedback_sync_enabled = TRUE],
                       ret |-> TRUE, tx |-> s.tx]
                 ELSE [c |-> w.c, ret |-> FALSE, tx |-> s.tx]
      after_send(s) ==
        IF ~s.ret
          THEN [c |-> s.c, ret |-> FALSE, tx |-> s.tx]
          ELSE after_wait(s, wait_for_feedback(s.c, io.probe))
  IN IF c.m_feedback_probe_done
       THEN [c |-> c, ret |-> c.m_feedback_sync_enabled, tx |-> <<>>]
       ELSE after_send(sendmsg_packet([c EXCEPT !.m_feedback_probe_done = TRUE],
                                      HelloPacket, io.hello))

\* variant: a failed connection attempt is forgotten
connect_given_up_never(c) == FALSE

\* ensure_connected refusing to connect after an attempt that failed
connect_given_up(c) == c.m_connect_failed

ensure_connected(c, io) ==
  LET after_probe(p) == [c |-> p.c, ret |-> TRUE, tx |-> p.tx]
  IN IF ~is_enabled(c)
       THEN [c |-> c, ret |-> FALSE, tx |-> <<>>]
       ELSE IF c.m_socket_fd >= 0
              THEN [c |-> c, ret |-> TRUE, tx |-> <<>>]
              ELSE IF connect_given_up(c)
                     THEN [c |-> c, ret |-> FALSE, tx |-> <<>>]
                     ELSE IF io.connect # "ok"
                            THEN [c |-> [c EXCEPT !.m_connect_failed = TRUE],
                                  ret |-> FALSE, tx |-> <<>>]
                            ELSE after_probe(probe_feedback_support(
                                   [c EXCEPT !.m_socket_fd = SockFd,
                                             !.m_connect_failed = FALSE,
                                             !.m_feedback_probe_done = FALSE,
                                             !.m_feedback_sync_enabled = FALSE], io))

send_packet(c, pkt, num_fds, io) ==
  LET after_sendmsg(e, s) == [c |-> s.c, ret |-> s.ret, tx |-> e.tx \o s.tx]
      after_connect(e) ==
        IF ~e.ret
          THEN [c |-> e.c, ret |-> FALSE, tx |-> e.tx]
          ELSE IF num_fds > XWL_DMABUF_BRIDGE_MAX_PLANES
                 THEN [c |-> e.c, ret |-> FALSE, tx |-> e.tx]
                 ELSE after_sendmsg(e, sendmsg_packet(e.c, pkt, io.send))
  IN after_connect(ensure_connected(c, io))

\* variant: the counter value is used as it is
next_frame_id_no_skip(c) ==
  [id |-> c.m_next_frame_id, next |-> U32Inc(c.m_next_frame_id)]

\* packet.reserved = m_next_frame_id++, taken again when it is 0
next_frame_id(c) ==
  LET first == c.m_next_frame_id
      after1 == U32Inc(first)
  IN IF first = U32Zero
       THEN [id |-> after1, next |-> U32Inc(after1)]
       ELSE [id |-> first, next |-> after1]

\* variant: a failed feedback wait leaves feedback sync as it is
feedback_wait_keeps_sync(c) == c

\* present_frame after wait_for_feedback returned false
feedback_wait_failed(c) == [c EXCEPT !.m_feedback_sync_enabled = FALSE]

\* variant: a FEEDBACK reply with the failure flag fails the call
feedback_received_unless_failed(flags) == "FAILED" \notin flags

\* the return value of present_frame once the FEEDBACK reply is there: a
\* reply with XWL_DMABUF_BRIDGE_FEEDBACK_FAILED is logged only
feedback_received(flags) == TRUE

\* the feedback wait a call did not make
NoWait == [kind |-> "none", flags |-> {}]

\* variant: any number of planes but zero is accepted
plane_count_accepted_unlimited(num_planes) == num_planes # 0

\* the plane counts present_frame accepts
plane_count_accepted(num_planes) ==
  num_planes # 0 /\ num_planes <= XWL_DMABUF_BRIDGE_MAX_PLANES

\* present_frame; planes_valid: no plane has a negative fd or stride.
\* id is the frame id put in the packet (packet.reserved), assigned tells
\* whether the call got as far as assigning one, fb is the outcome of the
\* wait_for_feedback call it made for the frame (NoWait when it made none).
present_frame(c, num_planes, planes_valid, io) ==
  LET after_wait(id, s, w) ==
        IF ~w.ret
          THEN [c |-> feedback_wait_failed(w.c), ret |-> TRUE, assigned |-> TRUE,
                id |-> id, tx |-> s.tx, fb |-> io.fb]
          ELSE [c |-> w.c, ret |-> feedback_received(w.flags), assigned |-> TRUE,
                id |-> id, tx |-> s.tx, fb |-> io.fb]
      after_send(id, s) ==
        IF ~s.ret
          THEN [c |-> s.c, ret |-> FALSE, assigned |-> TRUE, id |-> id, tx |-> s.tx,
                fb |-> NoWait]
          ELSE IF ~s.c.m_feedback_sync_enabled
                 THEN [c |-> s.c, ret |-> TRUE, assigned |-> TRUE, id |-> id,
                       tx |-> s.tx, fb |-> NoWait]
                 ELSE after_wait(id, s, wait_for_feedback(s.c, io.fb))
      with_id(id, c1) ==
        IF ~planes_valid
          THEN [c |-> c1, ret |-> FALSE, assigned |-> TRUE, id |-> id, tx |-> <<>>,
                fb |-> NoWait]
          ELSE after_send(id, send_packet(c1, FramePacket(id), num_planes, io))
      assign(n) == with_id(n.id, [c EXCEPT !.m_next_frame_id = n.next])
  IN IF ~is_enabled(c) \/ ~plane_count_accepted(num_planes)
       THEN [c |-> c, ret |-> FALSE, assigned |-> FALSE, id |-> U32Zero, tx |-> <<>>,
             fb |-> NoWait]
       ELSE assign(next_frame_id(c))

stop_stream(c, io) ==
  IF ~is_enabled(c)
    THEN [c |-> c, ret |-> FALSE, tx |-> <<>>]
    ELSE send_packet(c, StopPacket, 0, io)

\* whether a feedback wait of present_frame has timed out, and whether the
\* connection it timed out on is still the open one
RememberTimeout(t, c, fb) ==
  IF c.m_socket_fd < 0
    THEN IF t = "no" /\ fb.kind # "timeout" THEN "no" ELSE "earlier_connection"
    ELSE IF fb.kind = "timeout" THEN "this_connection" ELSE t

\* the frame ids of the last two present_frame calls that assigned one
RememberId(ids, r) ==
  IF ~r.assigned THEN ids
  ELSE IF Len(ids) < 2 THEN Append(ids, r.id) ELSE <<ids[2], r.id>>

\* the outcome records in which a field that cannot matter (a call that is
\* never made after an earlier failure) keeps its first value
NoFeedback == [kind |-> "timeout", flags |-> {}]

CanonicalIO(io) ==
  /\ (io.connect # "ok" => io.hello = "ok")
  /\ (io.connect # "ok" \/ io.hello # "ok" => io.probe = NoFeedback)
  /\ (io.connect # "ok" \/ io.hello # "ok" \/ io.probe.kind = "io_error" => io.send = "ok")
  /\ (io.connect # "ok" \/ io.hello # "ok" \/ io.probe.kind = "io_error" \/ io.send # "ok"
        => io.fb = NoFeedback)

ClientIO == {io \in IOOutcomes : CanonicalIO(io)}

\* on a connected socket no connection is made and no probe is run
ClientIOFor(c) ==
  IF c.m_socket_fd >= 0 \/ c.m_connect_failed
    THEN {io \in ClientIO : io.connect = "ok" /\ io.hello = "ok" /\ io.probe = NoFeedback}
    ELSE ClientIO

\* the outcomes explored when the swapchain drives the client: one
\* representative of each kind of failure, and of the flags of a reply the
\* capability bit for the probe and the failure bit for a frame
SwapchainIO ==
  {io \in ClientIO :
     /\ io.connect \in {"ok", "connect_failed"}
     /\ io.hello \in {"ok", "error"}
     /\ io.send \in {"ok", "error"}
     /\ io.probe.flags \subseteq {"CAP_SYNC"}
     /\ io.fb.flags \subseteq {"FAILED"}}

SwapchainIOFor(c) ==
  {io \in ClientIOFor(c) \cap SwapchainIO :
     (c.m_socket_fd >= 0 /\ ~c.m_feedback_sync_enabled) => io.fb = NoFeedback}

\* plane count of the images handed to the bridge
PlaneCounts == {1}

(***************************************************************************)
(* Bridge wire client: the packets and the poll/recv loop                  *)
(***************************************************************************)
XWL_DMABUF_BRIDGE_MAGIC == 1480868422

XWL_DMABUF_BRIDGE_VERSION == 1

XWL_DMABUF_BRIDGE_OP_FRAME == 1

XWL_DMABUF_BRIDGE_OP_FEEDBACK == 4

\* a frame id that no wait of the call expects
OtherFrameId == U32(0, 0)

\* the fields of xwl_dmabuf_bridge_packet the loop looks at, and whether
\* the datagram has the size of the structure
PacketFields(frame_id) ==
  [magic : {XWL_DMABUF_BRIDGE_MAGIC, 0},
   version : {XWL_DMABUF_BRIDGE_VERSION, XWL_DMABUF_BRIDGE_VERSION + 1},
   opcode : {XWL_DMABUF_BRIDGE_OP_FEEDBACK, XWL_DMABUF_BRIDGE_OP_FRAME},
   reserved : {XWL_DMABUF_BRIDGE_HELLO_FRAME_ID, frame_id, OtherFrameId},
   flags : SUBSET FeedbackFlags,
   full_size : BOOLEAN]

\* the number of the checks on magic, version, opcode and size a packet fails
Malformations(pkt) ==
  (IF pkt.magic # XWL_DMABUF_BRIDGE_MAGIC THEN 1 ELSE 0)
    + (IF pkt.version # XWL_DMABUF_BRIDGE_VERSION THEN 1 ELSE 0)
    + (IF pkt.opcode # XWL_DMABUF_BRIDGE_OP_FEEDBACK THEN 1 ELSE 0)
    + (IF pkt.full_size THEN 0 ELSE 1)

\* what recv delivers in the model: the FEEDBACK packets of every frame id
\* and flag set, and the packets that fail one check and otherwise look like
\* an answer with every flag set
ReceivedPackets(frame_id) ==
  {pkt \in PacketFields(frame_id) :
     \/ Malformations(pkt) = 0
     \/ Malformations(pkt) = 1 /\ pkt.flags = FeedbackFlags /\ pkt.reserved # OtherFrameId}

NoPacket ==
  [magic |-> 0, version |-> 0, opcode |-> 0, reserved |-> U32Zero, flags |-> {},
   full_size |-> FALSE]

NoEvent == [kind |-> "none", packet |-> NoPacket]

\* what one pass of the loop can meet.  poll asks for POLLIN only, so a
\* positive result carries POLLIN or one of POLLERR, POLLHUP, POLLNVAL.
\*   poll_eintr    poll < 0 with EINTR
\*   poll_error    poll < 0 with another errno
\*   poll_timeout  poll = 0
\*   poll_hup      revents has POLLERR, POLLHUP or POLLNVAL
\*   recv_again    recv < 0 with EINTR, EAGAIN or EWOULDBLOCK
\*   recv_error    recv < 0 with another errno
\*   recv_zero     recv = 0
\*   packet        recv > 0
LoopEvents(frame_id) ==
  {[kind |-> k, packet |-> NoPacket] :
     k \in {"poll_eintr", "poll_error", "poll_timeout", "poll_hup",
            "recv_again", "recv_error", "recv_zero"}}
    \cup {[kind |-> "packet", packet |-> pkt] : pkt \in ReceivedPackets(frame_id)}

\* the events after which the connection is unusable
IOErrorEvents ==
  {"send_error", "send_short", "poll_error", "poll_hup", "recv_error", "recv_zero"}

\* variant: a FEEDBACK packet of any frame is taken
is_expected_feedback_any_frame(pkt, expected_frame_id) ==
  /\ pkt.full_size
  /\ pkt.magic = XWL_DMABUF_BRIDGE_MAGIC
  /\ pkt.version = XWL_DMABUF_BRIDGE_VERSION
  /\ pkt.opcode = XWL_DMABUF_BRIDGE_OP_FEEDBACK

\* the checks a received packet passes before wait_for_feedback returns it
is_expected_feedback(pkt, expected_frame_id) ==
  /\ pkt.full_size
  /\ pkt.magic = XWL_DMABUF_BRIDGE_MAGIC
  /\ pkt.version = XWL_DMABUF_BRIDGE_VERSION
  /\ pkt.opcode = XWL_DMABUF_BRIDGE_OP_FEEDBACK
  /\ pkt.reserved = expected_frame_id

\* one pass of the while (true) loop of wait_for_feedback; done tells whether
\* the function returned, ev is what the pass met ("deadline": the pass
\* found now >= deadline before polling)
wait_for_feedback_pass(c, expected_frame_id, timeout_ms, expired, ev) ==
  LET continue == [c |-> c, done |-> FALSE, ret |-> FALSE, flags |-> {}, ev |-> ev]
      fail == [c |-> c, done |-> TRUE, ret |-> FALSE, flags |-> {}, ev |-> ev]
      reset == [c |-> reset_connection(c), done |-> TRUE, ret |-> FALSE, flags |-> {},
                ev |-> ev]
  IN IF timeout_ms # 0 /\ expired
       THEN [fail EXCEPT !.ev = [kind |-> "deadline", packet |-> NoPacket]]
       ELSE CASE ev.kind = "poll_eintr" -> continue
              [] ev.kind = "poll_error" -> reset
              [] ev.kind = "poll_timeout" -> fail
              [] ev.kind = "poll_hup" -> reset
              [] ev.kind = "recv_again" -> continue
              [] ev.kind = "recv_error" -> reset
              [] ev.kind = "recv_zero" -> reset
              [] ev.kind = "packet" ->
                   IF is_expected_feedback(ev.packet, expected_frame_id)
                     THEN [c |-> c, done |-> TRUE, ret |-> TRUE, flags |-> ev.packet.flags,
                           ev |-> ev]
                     ELSE continue

(***************************************************************************)
(* Swapchain: image pool and deferred release                              *)
(***************************************************************************)
VK_SUCCESS == "VK_SUCCESS"

VK_NOT_READY == "VK_NOT_READY"

VK_TIMEOUT == "VK_TIMEOUT"

VK_ERROR_OUT_OF_DATE_KHR == "VK_ERROR_OUT_OF_DATE_KHR"

VK_ERROR_SURFACE_LOST_KHR == "VK_ERROR_SURFACE_LOST_KHR"

Images == 0 .. (numImages - 1)

\* m_free_buffer_pool is never filled, so only the status scan remains
free_image_found(st) == \E i \in DOMAIN st : st[i] = "FREE"

\* swapchain_base::unpresent_image
unpresent_image(st, i) == [st EXCEPT ![i] = "FREE"]

\* swapchain_base::set_error_state
set_error_state(err, res) == res

\* swapchain_base::error_has_occured
error_has_occured(err) == err # VK_SUCCESS

\* variant: the lag equals the image count
release_lag_frames_full(size) == size

release_lag_frames(size) == IF size > 1 THEN size - 1 ELSE 1

\* variant: every queued image but the newest is released
release_over_lag_eager(q, st, lag) ==
  IF Len(q) > 1
    THEN [q |-> <<q[Len(q)]>>,
          st |-> [i \in DOMAIN st |->
                    IF \E k \in 1 .. (Len(q) - 1) : q[k] = i THEN "FREE" ELSE st[i]]]
    ELSE [q |-> q, st |-> st]

RECURSIVE release_over_lag(_, _, _)
\* while (m_bridge_pending_unpresent.size() > release_lag_frames) pop and unpresent
release_over_lag(q, st, lag) ==
  IF Len(q) > lag
    THEN release_over_lag(Tail(q), unpresent_image(st, Head(q)), lag)
    ELSE [q |-> q, st |-> st]

\* variant: the queued images are released but stay in the queue
drain_pending_unpresent_keep(q, st) ==
  [q |-> q,
   st |-> [i \in DOMAIN st |->
             IF \E k \in 1 .. Len(q) : q[k] = i THEN "FREE" ELSE st[i]]]

RECURSIVE drain_pending_unpresent(_, _)
\* while (!m_bridge_pending_unpresent.empty()) unpresent front and pop
drain_pending_unpresent(q, st) ==
  IF q = <<>>
    THEN [q |-> q, st |-> st]
    ELSE drain_pending_unpresent(Tail(q), unpresent_image(st, Head(q)))

\* present_image after the submission, up to notify_all: what happens to the
\* image and to the deferred-release queue
present_image_release(use_bridge, result, idx, q, st) ==
  IF ~use_bridge
    THEN [q |-> q, st |-> st, should_unpresent |-> TRUE]
    ELSE IF result = VK_SUCCESS
           THEN LET r == release_over_lag(Append(q, idx), st, release_lag_frames(Cardinality(DOMAIN st)))
                IN [q |-> r.q, st |-> r.st, should_unpresent |-> FALSE]
           ELSE LET d == drain_pending_unpresent(q, st)
                IN [q |-> d.q, st |-> d.st, should_unpresent |-> TRUE]

\* init_platform: bridge mode raises the image count to the target
init_platform_image_count(requested, use_bridge) ==
  IF use_bridge /\ requested < MAX_SWAPCHAIN_IMAGE_COUNT
    THEN MAX_SWAPCHAIN_IMAGE_COUNT
    ELSE requested

\* the value read from m_present_event_thread_run before the background
\* thread has written it: the constructor leaves the member uninitialized
UninitializedBool == BOOLEAN

HistMore == <<[op |-> "more", image |-> 0, ok |-> TRUE]>>

Remember(h, ev) ==
  IF h = HistMore \/ Len(h) >= MaxHist THEN HistMore ELSE Append(h, ev)

LowestFree(st) == CHOOSE i \in DOMAIN st : st[i] = "FREE" /\ \A j \in DOMAIN st : st[j] = "FREE" => i <= j

\* variant: the swapchain is destroyed while a present is in flight
AppIdleButPresent == acq_pc = "idle" /\ dtor_pc = "idle"

AppIdle == acq_pc = "idle" /\ pres_pc = "idle" /\ dtor_pc = "idle"

(***************************************************************************)
(* Swapchain: creation                                                     *)
(***************************************************************************)
\* variant: the process-wide flag is not consulted
use_xwayland_bridge_if_requested(bridge_requested, bridge_runtime_disabled) ==
  bridge_requested

\* m_use_xwayland_bridge as init_platform sets it
use_xwayland_bridge(bridge_requested, bridge_runtime_disabled) ==
  bridge_requested /\ ~bridge_runtime_disabled

\* vkCreateSwapchainKHR reaching swapchain::swapchain and init_platform
CreateSwapchain ==
  /\ sc_state \in {"none", "destroyed"}
  /\ \E requested \in 1 .. MaxImages, uninit \in UninitializedBool :
       LET bridge_requested == env_bridge
           use_bridge == use_xwayland_bridge(bridge_requested,
                                             g_disable_xwayland_bridge_runtime)
           n == init_platform_image_count(requested, use_bridge)
       IN /\ m_use_xwayland_bridge' = use_bridge
          /\ numImages' = n
          /\ status' = [i \in 0 .. (n - 1) |-> "FREE"]
          /\ m_present_event_thread_run' = uninit
  /\ client' = IF env_bridge
                 THEN NewClient(SocketPath, DefaultFeedbackTimeoutMs, U32(0, 1))
                 ELSE NoClient
  /\ sc_state' = "live"
  /\ m_bridge_pending_unpresent' = <<>>
  /\ error_state' = VK_SUCCESS
  /\ waiters' = {}
  /\ bg_pc' = "spawned"
  /\ acq_pc' = "idle" /\ acq_timeout' = "zero" /\ gfb_result' = "none"
  /\ pres_pc' = "idle" /\ pres_image' = 0 /\ present_result' = "none"
  /\ api_present_result' = "none"
  /\ dtor_pc' = "idle"
  /\ app_owned' = {}
  /\ acq_streak' = 0
  /\ hist' = <<>>
  /\ ncalls' = 0 /\ frame_ids' = <<>> /\ wire' = <<>> /\ last_ret' = FALSE /\ last_fb' = NoWait
  /\ fb_timed_out' = "no"
  /\ UNCHANGED <<env_bridge, g_disable_xwayland_bridge_runtime, emVars, wireVars, paceVars, qpVars>>

(***************************************************************************)
(* Swapchain: background thread (present_event_thread)                     *)
(***************************************************************************)
\* no code fills pending_completions
pending_completions_size(i) == 0

assume_forward_progress ==
  \E i \in DOMAIN status : status[i] # "INVALID" /\ pending_completions_size(i) # 0

\* the thread takes the lock, sets the running flag and reaches the wait.
\* While the flag stays true a return from the wait (notified or spurious)
\* finds nothing to do and waits again without releasing the lock in
\* between, which changes no state; so the thread is not kept in waiters.
BgStart ==
  /\ sc_state = "live"
  /\ bg_pc = "spawned"
  /\ m_present_event_thread_run' = TRUE
  /\ bg_pc' = IF ~assume_forward_progress THEN "wait" ELSE "poll"
  /\ UNCHANGED <<waiters, env_bridge, g_disable_xwayland_bridge_runtime, sc_state, numImages, status,
                 m_use_xwayland_bridge, m_bridge_pending_unpresent, error_state,
                 acq_pc, acq_timeout, gfb_result, pres_pc, pres_image,
                 present_result, api_present_result, dtor_pc, app_owned, acq_streak, hist,
                 clVars, emVars, wireVars, paceVars, qpVars>>

\* the thread returns from the wait, finds the flag cleared, leaves the loop,
\* clears the flag again and notifies
BgWake ==
  /\ sc_state = "live"
  /\ bg_pc = "wait"
  /\ ~m_present_event_thread_run
  /\ m_present_event_thread_run' = FALSE
  /\ waiters' = {}
  /\ bg_pc' = "done"
  /\ UNCHANGED <<env_bridge, g_disable_xwayland_bridge_runtime, sc_state, numImages, status,
                 m_use_xwayland_bridge, m_bridge_pending_unpresent, error_state,
                 acq_pc, acq_timeout, gfb_result, pres_pc, pres_image,
                 present_result, api_present_result, dtor_pc, app_owned, acq_streak, hist,
                 clVars, emVars, wireVars, paceVars, qpVars>>

\* a condition-variable wait may return without a notification
SpuriousWakeup ==
  /\ sc_state = "live"
  /\ \E t \in waiters : waiters' = waiters \ {t}
  /\ UNCHANGED <<env_bridge, g_disable_xwayland_bridge_runtime, sc_state, numImages, status,
                 m_use_xwayland_bridge, m_bridge_pending_unpresent, error_state,
                 m_present_event_thread_run, bg_pc,
                 acq_pc, acq_timeout, gfb_result, pres_pc, pres_image,
                 present_result, api_present_result, dtor_pc, app_owned, acq_streak, hist,
                 clVars, emVars, wireVars, paceVars, qpVars>>

(***************************************************************************)
(* Swapchain: acquire                                                      *)
(***************************************************************************)
Timeouts == {"zero", "infinite", "finite"}

\* variant: a zero timeout waits like any other
get_free_buffer_pass_blocking(timeout, st, run) ==
  IF free_image_found(st)
    THEN VK_SUCCESS
    ELSE IF ~run THEN VK_ERROR_OUT_OF_DATE_KHR ELSE "wait"

\* one pass of get_free_buffer under the status lock: "wait" stands for blocking
\* in the condition-variable wait
get_free_buffer_pass(timeout, st, run) ==
  IF timeout = "zero"
    THEN IF free_image_found(st) THEN VK_SUCCESS ELSE VK_NOT_READY
    ELSE IF free_image_found(st)
           THEN VK_SUCCESS
           ELSE IF ~run THEN VK_ERROR_OUT_OF_DATE_KHR ELSE "wait"

\* get_free_buffer from its entry to its return or to its first wait
GetFreeBuffer(t) ==
  LET r == get_free_buffer_pass(t, status, m_present_event_thread_run)
  IN /\ acq_timeout' = t
     /\ IF r = "wait"
          THEN /\ waiters' = waiters \cup {"acq"}
               /\ acq_pc' = "gfb_wait"
               /\ UNCHANGED gfb_result
          ELSE /\ gfb_result' = r
               /\ acq_pc' = "gfb_ret"
               /\ UNCHANGED waiters

\* vkAcquireNextImageKHR entering swapchain_base::acquire_next_image: a
\* swapchain in the error state rejects the call, otherwise the call goes
\* on to get_free_buffer
AcquireCall ==
  /\ sc_state = "live"
  /\ acq_pc = "idle"
  /\ dtor_pc = "idle"
  /\ \E t \in Timeouts :
       IF error_has_occured(error_state)
         THEN /\ hist' = Remember(hist, [op |-> "acquire_rejected", image |-> 0, ok |-> FALSE])
              /\ UNCHANGED <<acq_pc, acq_timeout, gfb_result, waiters>>
         ELSE /\ GetFreeBuffer(t)
              /\ UNCHANGED hist
  /\ UNCHANGED <<env_bridge, g_disable_xwayland_bridge_runtime, sc_state, numImages, status,
                 m_use_xwayland_bridge, m_bridge_pending_unpresent, error_state,
                 m_present_event_thread_run, bg_pc, pres_pc, pres_image,
                 present_result, api_present_result, dtor_pc, app_owned, acq_streak,
                 clVars, emVars, wireVars, paceVars, qpVars>>

\* get_free_buffer returning from the wait (notified or not) and testing
\* its loop condition again
GetFreeBufferWake ==
  /\ acq_pc = "gfb_wait"
  /\ "acq" \notin waiters
  /\ LET r == get_free_buffer_pass(acq_timeout, status, m_present_event_thread_run)
     IN IF r = "wait"
          THEN /\ waiters' = waiters \cup {"acq"}
               /\ UNCHANGED <<acq_pc, gfb_result>>
          ELSE /\ gfb_result' = r
               /\ acq_pc' = "gfb_ret"
               /\ UNCHANGED waiters
  /\ UNCHANGED <<env_bridge, g_disable_xwayland_bridge_runtime, sc_state, numImages, status,
                 m_use_xwayland_bridge, m_bridge_pending_unpresent, error_state,
                 m_present_event_thread_run, bg_pc, acq_timeout, pres_pc,
                 pres_image, present_result, api_present_result, dtor_pc, app_owned,
                 acq_streak, hist, clVars, emVars, wireVars, paceVars, qpVars>>

\* wait_until reaching its time point
GetFreeBufferTimeout ==
  /\ acq_pc = "gfb_wait"
  /\ acq_timeout = "finite"
  /\ "acq" \in waiters
  /\ waiters' = waiters \ {"acq"}
  /\ gfb_result' = VK_TIMEOUT
  /\ acq_pc' = "gfb_ret"
  /\ UNCHANGED <<env_bridge, g_disable_xwayland_bridge_runtime, sc_state, numImages, status,
                 m_use_xwayland_bridge, m_bridge_pending_unpresent, error_state,
                 m_present_event_thread_run, bg_pc, acq_timeout, pres_pc,
                 pres_image, present_result, api_present_result, dtor_pc, app_owned,
                 acq_streak, hist, clVars, emVars, wireVars, paceVars, qpVars>>

\* swapchain_base::acquire_next_image after get_free_buffer: the result of
\* the wait is passed on, an error state is reported as such, otherwise the
\* first FREE image becomes ACQUIRED
AcquireFinish ==
  /\ acq_pc = "gfb_ret"
  /\ acq_pc' = "idle"
  /\ acq_timeout' = "zero"
  /\ gfb_result' = "none"
  /\ IF gfb_result # VK_SUCCESS
       THEN /\ hist' = Remember(hist, [op |-> "acquire_failed", image |-> 0, ok |-> FALSE])
            /\ UNCHANGED <<status, app_owned, acq_streak>>
       ELSE IF error_has_occured(error_state)
              THEN /\ hist' = Remember(hist, [op |-> "acquire_rejected", image |-> 0, ok |-> FALSE])
                   /\ UNCHANGED <<status, app_owned, acq_streak>>
              ELSE IF ~free_image_found(status)
                     THEN /\ hist' = Remember(hist, [op |-> "acquire_failed", image |-> 0, ok |-> FALSE])
                          /\ UNCHANGED <<status, app_owned, acq_streak>>
                     ELSE LET i == LowestFree(status)
                          IN /\ status' = [status EXCEPT ![i] = "ACQUIRED"]
                             /\ app_owned' = app_owned \cup {i}
                             /\ acq_streak' = acq_streak + 1
                             /\ hist' = Remember(hist, [op |-> "acquire", image |-> i, ok |-> TRUE])
  /\ UNCHANGED <<env_bridge, g_disable_xwayland_bridge_runtime, sc_state, numImages,
                 m_use_xwayland_bridge, m_bridge_pending_unpresent, error_state,
                 m_present_event_thread_run, waiters, bg_pc,
                 pres_pc, pres_image, present_result, api_present_result, dtor_pc,
                 clVars, emVars, wireVars, paceVars, qpVars>>

(***************************************************************************)
(* Swapchain: present                                                      *)
(***************************************************************************)
PresentEvent(idx, result) == [op |-> "present", image |-> idx, ok |-> (result = VK_SUCCESS)]

\* present_image from the decision on the image idx to notify_all and unlock
ReleaseStep(result, idx) ==
  LET rel == present_image_release(m_use_xwayland_bridge, result, idx,
                                   m_bridge_pending_unpresent, status)
  IN /\ status' = rel.st
     /\ m_bridge_pending_unpresent' = rel.q
     /\ waiters' = {}
     /\ IF rel.should_unpresent
          THEN /\ pres_pc' = "unpresent"
               /\ present_result' = result
               /\ pres_image' = idx
               /\ UNCHANGED hist
          ELSE /\ pres_pc' = "idle"
               /\ present_result' = "none"
               /\ pres_image' = 0
               /\ hist' = Remember(hist, PresentEvent(idx, result))

\* what present_image does with the answer of the bridge client
bridge_failure_error_state(err, bridge_ok) ==
  IF bridge_ok THEN err ELSE set_error_state(err, VK_ERROR_OUT_OF_DATE_KHR)

\* present_image of image idx on the bridge path, from taking the lock to the
\* unlock before the pacing sleep (success) or to the final unlock (failure)
PresentImageBridge(idx) ==
  /\ \E np \in PlaneCounts, io \in SwapchainIOFor(client) :
     \E r \in {present_frame(client, np, TRUE, io)} :
       LET bridge_ok == client # NoClient /\ r.ret
       IN /\ client' = r.c
          /\ wire' = r.tx
          /\ last_ret' = r.ret
          /\ last_fb' = r.fb
          /\ fb_timed_out' = RememberTimeout(fb_timed_out, r.c, r.fb)
          /\ frame_ids' = RememberId(frame_ids, r)
          /\ ncalls' = ncalls + 1
          /\ error_state' = bridge_failure_error_state(error_state, bridge_ok)
          /\ IF bridge_ok
               THEN /\ present_result' = VK_SUCCESS
                    /\ pres_pc' = "throttle"
                    /\ pres_image' = idx
                    /\ UNCHANGED <<g_disable_xwayland_bridge_runtime, status,
                                   m_bridge_pending_unpresent, waiters, hist>>
               ELSE /\ g_disable_xwayland_bridge_runtime' = TRUE
                    /\ ReleaseStep(VK_ERROR_OUT_OF_DATE_KHR, idx)

ShmPresentResults == {VK_SUCCESS, VK_ERROR_SURFACE_LOST_KHR}

\* present_image of image idx on the shared-memory path, from taking the lock
\* to the final unlock
PresentImageShm(idx) ==
  /\ \E res \in ShmPresentResults : ReleaseStep(res, idx)
  /\ UNCHANGED <<g_disable_xwayland_bridge_runtime, error_state, clVars>>

\* vkQueuePresentKHR entering swapchain_base::queue_present for an image the
\* application holds: a swapchain in the error state rejects the call and
\* releases the image, otherwise present_image runs
QueuePresent ==
  /\ sc_state = "live"
  /\ pres_pc = "idle"
  /\ dtor_pc = "idle"
  /\ m_use_xwayland_bridge => ncalls < MaxCalls
  /\ \E i \in app_owned :
       /\ app_owned' = app_owned \ {i}
       /\ IF error_has_occured(error_state)
            THEN /\ api_present_result' = VK_ERROR_OUT_OF_DATE_KHR
                 /\ status' = unpresent_image(status, i)
                 /\ hist' = Remember(hist, [op |-> "present_rejected", image |-> i, ok |-> FALSE])
                 /\ UNCHANGED <<pres_pc, pres_image, present_result, waiters,
                                m_bridge_pending_unpresent, error_state,
                                g_disable_xwayland_bridge_runtime, clVars>>
            ELSE /\ api_present_result' = VK_SUCCESS
                 /\ IF m_use_xwayland_bridge
                      THEN PresentImageBridge(i)
                      ELSE PresentImageShm(i)
  /\ acq_streak' = 0
  /\ UNCHANGED <<env_bridge, sc_state, numImages, m_use_xwayland_bridge,
                 m_present_event_thread_run, bg_pc, acq_pc, acq_timeout,
                 gfb_result, dtor_pc, emVars, wireVars, paceVars, qpVars>>

\* throttle_bridge_present_if_needed, called without the lock
PresentImageThrottle ==
  /\ pres_pc = "throttle"
  /\ pres_pc' = "release"
  /\ acq_streak' = 0
  /\ UNCHANGED <<env_bridge, g_disable_xwayland_bridge_runtime, sc_state, numImages, status,
                 m_use_xwayland_bridge, m_bridge_pending_unpresent, error_state,
                 m_present_event_thread_run, waiters, bg_pc, acq_pc, acq_timeout,
                 gfb_result, pres_image, present_result, api_present_result,
                 dtor_pc, app_owned, hist, clVars, emVars, wireVars, paceVars, qpVars>>

\* present_image after the pacing sleep: lock, defer the release, notify, unlock
PresentImageRelease ==
  /\ pres_pc = "release"
  /\ ReleaseStep(present_result, pres_image)
  /\ acq_streak' = 0
  /\ UNCHANGED <<env_bridge, g_disable_xwayland_bridge_runtime, sc_state, numImages,
                 m_use_xwayland_bridge, error_state, m_present_event_thread_run, bg_pc,
                 acq_pc, acq_timeout, gfb_result,
                 api_present_result, dtor_pc, app_owned, clVars, emVars, wireVars, paceVars, qpVars>>

\* the unpresent_image call after the unlock
PresentImageUnpresent ==
  /\ pres_pc = "unpresent"
  /\ status' = unpresent_image(status, pres_image)
  /\ pres_pc' = "idle"
  /\ present_result' = "none"
  /\ pres_image' = 0
  /\ hist' = Remember(hist, PresentEvent(pres_image, present_result))
  /\ acq_streak' = 0
  /\ UNCHANGED <<env_bridge, g_disable_xwayland_bridge_runtime, sc_state, numImages,
                 m_use_xwayland_bridge, m_bridge_pending_unpresent, error_state,
                 m_present_event_thread_run, waiters, bg_pc, acq_pc, acq_timeout,
                 gfb_result, api_present_result,
                 dtor_pc, app_owned, clVars, emVars, wireVars, paceVars, qpVars>>

(***************************************************************************)
(* Swapchain: destruction (swapchain::~swapchain)                          *)
(***************************************************************************)
\* lock, test the running flag, clear it and notify, unlock
DestroyBegin ==
  /\ sc_state = "live"
  /\ AppIdle
  /\ IF m_present_event_thread_run
       THEN /\ m_present_event_thread_run' = FALSE
            /\ waiters' = {}
            /\ dtor_pc' = "join"
       ELSE /\ dtor_pc' = "drain"
            /\ UNCHANGED <<m_present_event_thread_run, waiters>>
  /\ UNCHANGED <<env_bridge, g_disable_xwayland_bridge_runtime, sc_state, numImages, status,
                 m_use_xwayland_bridge, m_bridge_pending_unpresent, error_state, bg_pc,
                 acq_pc, acq_timeout, gfb_result, pres_pc, pres_image,
                 present_result, api_present_result, app_owned, acq_streak, hist,
                 clVars, emVars, wireVars, paceVars, qpVars>>

\* m_present_event_thread.join() returns once the thread function has returned
DestroyJoin ==
  /\ dtor_pc = "join"
  /\ bg_pc = "done"
  /\ bg_pc' = "joined"
  /\ dtor_pc' = "drain"
  /\ UNCHANGED <<env_bridge, g_disable_xwayland_bridge_runtime, sc_state, numImages, status,
                 m_use_xwayland_bridge, m_bridge_pending_unpresent, error_state,
                 m_present_event_thread_run, waiters,
                 acq_pc, acq_timeout, gfb_result, pres_pc, pres_image,
                 present_result, api_present_result, app_owned, acq_streak, hist,
                 clVars, emVars, wireVars, paceVars, qpVars>>

\* drain of the deferred-release queue, then stop_stream
DestroyDrainStop ==
  /\ dtor_pc = "drain"
  /\ LET d == IF m_use_xwayland_bridge
                THEN drain_pending_unpresent(m_bridge_pending_unpresent, status)
                ELSE [q |-> m_bridge_pending_unpresent, st |-> status]
     IN /\ m_bridge_pending_unpresent' = d.q
        /\ status' = d.st
  /\ IF client # NoClient
       THEN \E io \in SwapchainIOFor(client) :
              \E r \in {stop_stream(client, io)} :
                 /\ client' = r.c
                 /\ wire' = r.tx
                 /\ last_ret' = r.ret
                 /\ last_fb' = NoWait
                 /\ fb_timed_out' = RememberTimeout(fb_timed_out, r.c, NoWait)
       ELSE UNCHANGED <<client, wire, last_ret, last_fb, fb_timed_out>>
  /\ dtor_pc' = "teardown"
  /\ UNCHANGED <<env_bridge, g_disable_xwayland_bridge_runtime, sc_state, numImages,
                 m_use_xwayland_bridge, error_state, m_present_event_thread_run, waiters,
                 bg_pc, acq_pc, acq_timeout, gfb_result, pres_pc, pres_image,
                 present_result, api_present_result, app_owned, acq_streak, hist,
                 ncalls, frame_ids, emVars, wireVars, paceVars, qpVars>>

\* teardown() destroys the image resources; then the members are destroyed:
\* the bridge client closes its socket, and destroying a std::thread that
\* was not joined terminates the process
DestroyTeardown ==
  /\ dtor_pc = "teardown"
  /\ status' = [i \in DOMAIN status |-> "INVALID"]
  /\ client' = NoClient
  /\ sc_state' = IF bg_pc = "joined" THEN "destroyed" ELSE "terminated"
  /\ dtor_pc' = "idle"
  /\ app_owned' = {}
  /\ UNCHANGED <<env_bridge, g_disable_xwayland_bridge_runtime, numImages,
                 m_use_xwayland_bridge, m_bridge_pending_unpresent, error_state,
                 m_present_event_thread_run, waiters, bg_pc,
                 acq_pc, acq_timeout, gfb_result, pres_pc, pres_image,
                 present_result, api_present_result, acq_streak, hist,
                 ncalls, frame_ids, wire, last_ret, last_fb, fb_timed_out, emVars, wireVars, paceVars, qpVars>>

(***************************************************************************)
(* The swapchain specification                                             *)
(***************************************************************************)
InitClientIdle ==
  /\ client = NoClient
  /\ ncalls = 0
  /\ frame_ids = <<>>
  /\ wire = <<>>
  /\ last_ret = FALSE
  /\ last_fb = NoWait
  /\ fb_timed_out = "no"

InitExtMemIdle ==
  /\ m_buffer_fds = <<>>
  /\ m_num_planes = 0
  /\ alloc_fds = <<>>
  /\ closed = <<>>
  /\ em_pc = "unused"
  /\ m_num_memories = 0
  /\ m_memories = <<>>
  /\ imports = <<>>
  /\ binds = <<>>

InitWireIdle ==
  /\ w_pc = "unused"
  /\ w_frame_id = U32Zero
  /\ w_expired = FALSE
  /\ w_event = NoEvent
  /\ w_ret = FALSE
  /\ w_flags = {}
  /\ w_discarded = 0

\* no swapchain has been created: the members hold their initializers
\* (swapchain.hpp:266-268)
InitQueuePresentIdle ==
  /\ qp_pc = "unused"
  /\ qp_swapchain_results = <<>>
  /\ qp_has_results = FALSE
  /\ qp_wait_result = VK_SUCCESS
  /\ qp_pResults = <<>>
  /\ qp_attempted = <<>>
  /\ qp_ret = "none"

InitPaceIdle ==
  /\ now = 0
  /\ fps_env = [kind |-> "unset", value |-> 0]
  /\ allow_non_fifo_env = FALSE
  /\ allow_mailbox_env = FALSE
  /\ app_present_mode = "FIFO"
  /\ m_present_mode = "none"
  /\ m_bridge_present_interval_ns = 0
  /\ m_bridge_next_present_time = 0
  /\ m_bridge_present_rate_limit_initialized = FALSE
  /\ p_pc = "unused"
  /\ p_presents = 0
  /\ p_frame_time = 0
  /\ p_call_time = 0
  /\ p_scheduled = 0
  /\ p_slept = FALSE

InitSwapchainIdle ==
  /\ g_disable_xwayland_bridge_runtime = FALSE
  /\ sc_state = "none"
  /\ numImages = 0
  /\ status = <<>>
  /\ m_use_xwayland_bridge = FALSE
  /\ m_bridge_pending_unpresent = <<>>
  /\ error_state = VK_SUCCESS
  /\ m_present_event_thread_run = FALSE
  /\ waiters = {}
  /\ bg_pc = "none"
  /\ acq_pc = "idle" /\ acq_timeout = "zero" /\ gfb_result = "none"
  /\ pres_pc = "idle" /\ pres_image = 0 /\ present_result = "none"
  /\ api_present_result = "none"
  /\ dtor_pc = "idle"
  /\ app_owned = {}
  /\ acq_streak = 0
  /\ hist = <<>>

Init ==
  /\ env_bridge \in BOOLEAN
  /\ InitSwapchainIdle
  /\ InitClientIdle
  /\ InitExtMemIdle
  /\ InitWireIdle
  /\ InitPaceIdle
  /\ InitQueuePresentIdle

Next ==
  \/ CreateSwapchain
  \/ BgStart
  \/ BgWake
  \/ SpuriousWakeup
  \/ AcquireCall
  \/ GetFreeBufferWake
  \/ GetFreeBufferTimeout
  \/ AcquireFinish
  \/ QueuePresent
  \/ PresentImageThrottle
  \/ PresentImageRelease
  \/ PresentImageUnpresent
  \/ DestroyBegin
  \/ DestroyJoin
  \/ DestroyDrainStop
  \/ DestroyTeardown

Spec == Init /\ [][Next]_vars

\* The swapchain with the scheduling the threads get: a thread that can take
\* its next step takes it (the acquiring thread once it was woken or its
\* deadline passed, the presenting thread inside present_image, the
\* background thread).  Nothing obliges the application to make a further
\* call, and nothing obliges a condition variable to wake a waiter that was
\* not notified.
SpecAcquireFair ==
  /\ Spec
  /\ WF_vars(GetFreeBufferWake \/ GetFreeBufferTimeout \/ AcquireFinish)
  /\ WF_vars(PresentImageThrottle \/ PresentImageRelease \/ PresentImageUnpresent)
  /\ WF_vars(BgStart \/ BgWake)

(***************************************************************************)
(* The bridge client specification: one client, called directly            *)
(***************************************************************************)
\* The frame-id counter only ever moves forward by one, modulo 2^32, and a
\* reset connection leaves every other member as constructed; the client is
\* taken at three points of its life: new, shortly before the counter reaches
\* 0x48454c4f, and shortly before it wraps.
StartFrameIds == {U32(0, 1), U32(18501, 19534), U32(Half - 1, Half - 2)}

\* values of m_feedback_timeout_ms after the constructor
ClientTimeouts == {0, DefaultFeedbackTimeoutMs}

\* plane counts a caller can pass, valid or not
CallPlaneCounts == 0 .. (XWL_DMABUF_BRIDGE_MAX_PLANES + 1)

InitClient ==
  /\ env_bridge = TRUE
  /\ InitSwapchainIdle
  /\ InitExtMemIdle
  /\ InitWireIdle
  /\ InitPaceIdle
  /\ InitQueuePresentIdle
  /\ \E tmo \in ClientTimeouts, first \in StartFrameIds :
       client = NewClient(SocketPath, tmo, first)
  /\ ncalls = 0
  /\ frame_ids = <<>>
  /\ wire = <<>>
  /\ last_ret = FALSE
  /\ last_fb = NoWait
  /\ fb_timed_out = "no"

ClientPresentFrame ==
  /\ client # NoClient
  /\ ncalls < MaxCalls
  /\ \E np \in CallPlaneCounts, valid \in BOOLEAN, io \in ClientIOFor(client) :
     \E r \in {present_frame(client, np, valid, io)} :
          /\ client' = r.c
          /\ wire' = r.tx
          /\ last_ret' = r.ret
          /\ last_fb' = r.fb
          /\ fb_timed_out' = RememberTimeout(fb_timed_out, r.c, r.fb)
          /\ frame_ids' = RememberId(frame_ids, r)
  /\ ncalls' = ncalls + 1
  /\ UNCHANGED <<scVars, emVars, wireVars, paceVars, qpVars>>

ClientStopStream ==
  /\ client # NoClient
  /\ \E io \in ClientIOFor(client) :
     \E r \in {stop_stream(client, io)} :
          /\ client' = r.c
          /\ wire' = r.tx
          /\ last_ret' = r.ret
          /\ last_fb' = NoWait
          /\ fb_timed_out' = RememberTimeout(fb_timed_out, r.c, NoWait)
  /\ UNCHANGED <<ncalls, frame_ids, scVars, emVars, wireVars, paceVars, qpVars>>

NextClient ==
  \/ ClientPresentFrame
  \/ ClientStopStream

SpecClient == InitClient /\ [][NextClient]_vars

(***************************************************************************)
(* The external-memory specification: one descriptor                       *)
(***************************************************************************)
FirstFd == 5

\* plane descriptors: a dma-buf fd, or -1 for a plane without one
PlaneFds == {-1} \cup (FirstFd .. (FirstFd + NumFds - 1))

RECURSIVE cleanup_planes(_, _, _, _)
\* the loop of cleanup_external_memory from plane index `plane` (1-based):
\* a plane fd is closed unless an earlier slot of m_buffer_fds holds the
\* same value, and the slot is then set to -1
cleanup_planes(fds, plane, n, cl) ==
  IF plane > n
    THEN [fds |-> fds, closed |-> cl]
    ELSE IF fds[plane] < 0
           THEN cleanup_planes(fds, plane + 1, n, cl)
           ELSE LET fd == fds[plane]
                    seen_earlier == \E prev \in 1 .. (plane - 1) : fds[prev] = fd
                IN cleanup_planes([fds EXCEPT ![plane] = -1], plane + 1, n,
                                  IF seen_earlier THEN cl ELSE Append(cl, fd))

cleanup_external_memory(fds, n) == cleanup_planes(fds, 1, n, <<>>)

\* variant: every plane counts as a memory
num_memory_planes_per_plane(buffer_fds, num_planes) == num_planes

\* allocate_wsialloc: the planes whose fd does not occur again in the rest of
\* alloc_result.buffer_fds; the array has WSIALLOC_MAX_PLANES slots and the
\* slots after the last plane hold -1
num_memory_planes(buffer_fds, num_planes) ==
  LET WSIALLOC_MAX_PLANES == 4
      found_later(i) ==
        \/ \E j \in (i + 1) .. num_planes : buffer_fds[j] = buffer_fds[i]
        \/ num_planes < WSIALLOC_MAX_PLANES /\ buffer_fds[i] = -1
  IN Cardinality({i \in 1 .. num_planes : ~found_later(i)})

is_disjoint(num_memories) == num_memories # 1

\* the descriptor dup() returns for the k-th import (0-based): a number that
\* is no plane descriptor
DupFd(k) == FirstFd + NumFds + k

\* variant: the duplicate is closed after a successful import as well
import_plane_memory_closes_dup(fd, import_fd, outcome) ==
  IF fd < 0 \/ outcome \in {"props_failed", "dup_failed"}
    THEN [fd |-> fd, import_fd |-> -1, ret |-> FALSE, closed |-> <<>>]
    ELSE [fd |-> fd, import_fd |-> import_fd, ret |-> (outcome = "ok"),
          closed |-> <<import_fd>>]

\* import_plane_memory(fd, &memory): import_fd is what dup gives (dup of an
\* invalid descriptor fails), closed are the close() calls made, and after a
\* success the driver owns import_fd
import_plane_memory(fd, import_fd, outcome) ==
  IF fd < 0 \/ outcome \in {"props_failed", "dup_failed"}
    THEN [fd |-> fd, import_fd |-> -1, ret |-> FALSE, closed |-> <<>>]
    ELSE IF outcome \in {"lseek_failed", "zero_size", "alloc_failed"}
           THEN [fd |-> fd, import_fd |-> import_fd, ret |-> FALSE,
                 closed |-> <<import_fd>>]
           ELSE [fd |-> fd, import_fd |-> import_fd, ret |-> TRUE, closed |-> <<>>]

RECURSIVE import_disjoint_planes(_, _, _, _, _, _)
\* the loop of import_plane_memories for a disjoint image from plane index
\* `plane` (1-based): a plane whose fd has its first occurrence at that plane
\* is imported into the next slot of m_memories; the first failure returns
import_disjoint_planes(fds, plane, n, outs, mems, recs) ==
  LET after_import(r) ==
        IF ~r.ret
          THEN [ret |-> FALSE, memories |-> mems, imports |-> Append(recs, r)]
          ELSE import_disjoint_planes(fds, plane + 1, n, outs, Append(mems, r),
                                      Append(recs, r))
  IN IF plane > n
       THEN [ret |-> TRUE, memories |-> mems, imports |-> recs]
       ELSE IF \A prev \in 1 .. (plane - 1) : fds[prev] # fds[plane]
              THEN after_import(import_plane_memory(fds[plane], DupFd(Len(recs)),
                                                    outs[Len(recs) + 1]))
              ELSE import_disjoint_planes(fds, plane + 1, n, outs, mems, recs)

import_plane_memories(fds, n, num_memories, outs) ==
  LET single(r) ==
        [ret |-> r.ret, memories |-> IF r.ret THEN <<r>> ELSE <<>>, imports |-> <<r>>]
  IN IF is_disjoint(num_memories)
       THEN import_disjoint_planes(fds, 1, n, outs, <<>>, <<>>)
       ELSE single(import_plane_memory(fds[1], DupFd(0), outs[1]))

\* bind_swapchain_image_memory: the bind infos.  planeAspect is the index
\* into util::PLANE_FLAG_BITS (-1: no plane info chained), memory the plane fd
\* the memory object m_memories[k] was imported from (-1: VK_NULL_HANDLE,
\* nothing was imported into the slot), memoryOffset the index into m_offsets
bind_swapchain_image_memory(num_memories, mems) ==
  LET MemoryAt(ms, k) == IF k <= Len(ms) THEN ms[k].fd ELSE -1
  IN
  IF is_disjoint(num_memories)
    THEN [k \in 1 .. num_memories |->
            [planeAspect |-> k - 1, memory |-> MemoryAt(mems, k), memoryOffset |-> k - 1]]
    ELSE <<[planeAspect |-> -1, memory |-> MemoryAt(mems, 1), memoryOffset |-> 0]>>

\* an image whose description came from the pass without allocation: no
\* plane has a descriptor yet, the plane count is set and the number of
\* memories is drmFormatModifierPlaneCount of the chosen modifier
InitExtMem ==
  /\ env_bridge = FALSE
  /\ InitSwapchainIdle
  /\ InitClientIdle
  /\ InitWireIdle
  /\ InitPaceIdle
  /\ InitQueuePresentIdle
  /\ m_num_planes \in 1 .. MaxPlanes
  /\ alloc_fds \in [1 .. m_num_planes -> PlaneFds]
  /\ m_buffer_fds = [p \in 1 .. m_num_planes |-> -1]
  /\ m_num_memories \in {1, m_num_planes}
  /\ closed = <<>>
  /\ em_pc = "created"
  /\ m_memories = <<>>
  /\ imports = <<>>
  /\ binds = <<>>

\* allocate_wsialloc with avoid_allocation = false, the allocator returning
\* alloc_fds
ExtMemAllocate ==
  /\ em_pc = "created"
  /\ m_buffer_fds' = alloc_fds
  /\ m_num_memories' = num_memory_planes(alloc_fds, m_num_planes)
  /\ em_pc' = "allocated"
  /\ UNCHANGED <<m_num_planes, alloc_fds, closed, m_memories, imports, binds,
                 scVars, clVars, wireVars, paceVars, qpVars>>

\* import_memory_and_bind_swapchain_image: at most one import fails (a call
\* needs at most one import for each distinct value in the planes), in one
\* of the ways import_plane_memory can fail
ExtMemImportBind ==
  /\ em_pc = "allocated"
  /\ \E fail_at \in 0 .. (NumFds + 1), bind_ok \in BOOLEAN,
        how \in {"props_failed", "dup_failed", "lseek_failed", "zero_size", "alloc_failed"} :
     \E r \in {import_plane_memories(m_buffer_fds, m_num_planes, m_num_memories,
                  [k \in 1 .. (NumFds + 1) |-> IF k = fail_at THEN how ELSE "ok"])} :
          /\ m_memories' = r.memories
          /\ imports' = r.imports
          /\ IF r.ret
               THEN /\ binds' = bind_swapchain_image_memory(m_num_memories, r.memories)
                    /\ em_pc' = IF bind_ok THEN "bound" ELSE "bind_failed"
               ELSE /\ binds' = <<>>
                    /\ em_pc' = "import_failed"
  /\ UNCHANGED <<m_buffer_fds, m_num_planes, alloc_fds, closed, m_num_memories,
                 scVars, clVars, wireVars, paceVars, qpVars>>

\* external_memory::~external_memory for EXTERNAL_DMA_BUF memory
ExtMemDestroy ==
  /\ em_pc \in {"allocated", "bound", "bind_failed", "import_failed"}
  /\ LET r == cleanup_external_memory(m_buffer_fds, m_num_planes)
     IN /\ m_buffer_fds' = r.fds
        /\ closed' = r.closed
  /\ m_memories' = <<>>
  /\ em_pc' = "cleaned"
  /\ UNCHANGED <<m_num_planes, alloc_fds, m_num_memories, imports, binds,
                 scVars, clVars, wireVars, paceVars, qpVars>>

NextExtMem ==
  \/ ExtMemAllocate
  \/ ExtMemImportBind
  \/ ExtMemDestroy

SpecExtMem == InitExtMem /\ [][NextExtMem]_vars

(***************************************************************************)
(* The wire specification: one present_frame call with valid arguments,    *)
(* from send_packet on, one system call at a time                          *)
(***************************************************************************)
WaitPcs == {"probe_wait", "frame_wait"}

\* the arguments of the running wait_for_feedback call
WaitTimeoutMs == IF w_pc = "probe_wait" THEN ProbeTimeoutMs ELSE client.m_feedback_timeout_ms

WaitExpectedFrameId ==
  IF w_pc = "probe_wait" THEN XWL_DMABUF_BRIDGE_HELLO_FRAME_ID ELSE w_frame_id

SendEvent(c, outcome) ==
  [kind |-> IF c.m_socket_fd < 0 \/ outcome = "error" THEN "send_error"
            ELSE IF outcome = "short" THEN "send_short" ELSE "send_ok",
   packet |-> NoPacket]

\* the call has assigned its frame id and is in send_packet: either
\* ensure_connected has just connected (the flags are cleared and the probe
\* is about to run), or the socket was connected by an earlier call
InitWire ==
  /\ env_bridge = TRUE
  /\ InitSwapchainIdle
  /\ InitExtMemIdle
  /\ InitPaceIdle
  /\ InitQueuePresentIdle
  /\ \E tmo \in ClientTimeouts, first \in StartFrameIds, fresh \in BOOLEAN, sync \in BOOLEAN :
       LET c0 == NewClient(SocketPath, tmo, first)
           n == next_frame_id(c0)
       IN /\ client = [c0 EXCEPT !.m_socket_fd = SockFd,
                                 !.m_feedback_probe_done = ~fresh,
                                 !.m_feedback_sync_enabled = ~fresh /\ sync,
                                 !.m_next_frame_id = n.next]
          /\ w_frame_id = n.id
          /\ frame_ids = <<n.id>>
          /\ w_pc = IF fresh THEN "probe_send" ELSE "frame_send"
  /\ ncalls = 1
  /\ wire = <<>>
  /\ last_ret = FALSE
  /\ last_fb = NoWait
  /\ fb_timed_out = "no"
  /\ w_expired = FALSE
  /\ w_event = NoEvent
  /\ w_ret = FALSE
  /\ w_flags = {}
  /\ w_discarded = 0

\* probe_feedback_support up to its wait: the HELLO packet goes to sendmsg
\* (send_packet finds the socket connected); when it is not sent in full the
\* probe returns and ensure_connected returns true
ProbeSendHello ==
  /\ w_pc = "probe_send"
  /\ ~client.m_feedback_probe_done
  /\ \E outcome \in SendOutcomes :
       LET c1 == [client EXCEPT !.m_feedback_probe_done = TRUE]
           s == sendmsg_packet(c1, HelloPacket, outcome)
       IN /\ client' = s.c
          /\ wire' = wire \o s.tx
          /\ w_event' = SendEvent(c1, outcome)
          /\ w_pc' = IF s.ret THEN "probe_wait" ELSE "frame_send"
  /\ w_expired' = FALSE
  /\ w_discarded' = 0
  /\ UNCHANGED <<ncalls, frame_ids, last_ret, last_fb, fb_timed_out, w_frame_id, w_ret,
                 w_flags, scVars, emVars, paceVars, qpVars>>

\* one pass of the loop of wait_for_feedback.  A poll that returns 0 has
\* waited for the remaining time.  The test of m_socket_fd at the entry of
\* wait_for_feedback cannot succeed: the send before the wait succeeded.
WaitPass ==
  /\ w_pc \in WaitPcs
  /\ \E ev \in LoopEvents(w_frame_id) :
     \E r \in {wait_for_feedback_pass(client, WaitExpectedFrameId, WaitTimeoutMs,
                                      w_expired, ev)} :
          /\ client' = r.c
          /\ w_event' = r.ev
          /\ w_expired' = (w_expired \/ r.ev.kind = "poll_timeout")
          /\ IF r.done
               THEN /\ w_ret' = r.ret
                    /\ w_flags' = r.flags
                    /\ w_pc' = IF w_pc = "probe_wait" THEN "probe_end" ELSE "frame_end"
                    /\ UNCHANGED w_discarded
               ELSE /\ w_discarded' = IF r.ev.kind = "packet" /\ w_discarded < MaxDiscards
                                        THEN w_discarded + 1 ELSE w_discarded
                    /\ UNCHANGED <<w_pc, w_ret, w_flags>>
  /\ UNCHANGED <<ncalls, frame_ids, wire, last_ret, last_fb, fb_timed_out, w_frame_id,
                 scVars, emVars, paceVars, qpVars>>

\* the steady clock reaches the deadline of the running wait
DeadlinePasses ==
  /\ w_pc \in WaitPcs
  /\ ~w_expired
  /\ w_expired' = TRUE
  /\ UNCHANGED <<clVars, w_pc, w_frame_id, w_event, w_ret, w_flags, w_discarded,
                 scVars, emVars, paceVars, qpVars>>

\* probe_feedback_support after its wait, and the return of ensure_connected
ProbeFinish ==
  /\ w_pc = "probe_end"
  /\ client' = IF w_ret /\ probe_enables_sync(w_flags)
                 THEN [client EXCEPT !.m_feedback_sync_enabled = TRUE]
                 ELSE client
  /\ w_pc' = "frame_send"
  /\ UNCHANGED <<ncalls, frame_ids, wire, last_ret, last_fb, fb_timed_out, w_frame_id,
                 w_expired, w_event, w_ret, w_flags, w_discarded, scVars, emVars, paceVars, qpVars>>

\* send_packet after ensure_connected returned true: the FRAME packet goes to
\* sendmsg, which fails on a socket the probe has closed; then present_frame
\* returns or starts its feedback wait
FrameSend ==
  /\ w_pc = "frame_send"
  /\ \E outcome \in SendOutcomes :
       LET s == sendmsg_packet(client, FramePacket(w_frame_id), outcome)
           wait == s.ret /\ s.c.m_feedback_sync_enabled
       IN /\ client' = s.c
          /\ wire' = wire \o s.tx
          /\ w_event' = SendEvent(client, outcome)
          /\ w_pc' = IF wait THEN "frame_wait" ELSE "returned"
          /\ last_ret' = IF wait THEN last_ret ELSE s.ret
          /\ fb_timed_out' = IF wait THEN fb_timed_out
                              ELSE RememberTimeout(fb_timed_out, s.c, NoWait)
  /\ w_expired' = (client.m_feedback_timeout_ms = 0)
  /\ w_discarded' = 0
  /\ UNCHANGED <<ncalls, frame_ids, last_fb, w_frame_id, w_ret, w_flags, scVars, emVars, paceVars, qpVars>>

\* the outcome of a finished wait, as the call-level specifications name it
WaitOutcome ==
  [kind |-> IF w_ret THEN "match"
            ELSE IF w_event.kind \in {"deadline", "poll_timeout"} THEN "timeout"
            ELSE "io_error",
   flags |-> w_flags]

\* present_frame after its feedback wait
FrameFinish ==
  /\ w_pc = "frame_end"
  /\ client' = IF w_ret THEN client ELSE feedback_wait_failed(client)
  /\ last_ret' = IF w_ret THEN feedback_received(w_flags) ELSE TRUE
  /\ last_fb' = WaitOutcome
  /\ fb_timed_out' = RememberTimeout(fb_timed_out, client', WaitOutcome)
  /\ w_pc' = "returned"
  /\ UNCHANGED <<ncalls, frame_ids, wire, w_frame_id, w_expired, w_event, w_ret, w_flags,
                 w_discarded, scVars, emVars, paceVars, qpVars>>

\* the steps of the calling thread
NextWireThread ==
  \/ ProbeSendHello
  \/ WaitPass
  \/ ProbeFinish
  \/ FrameSend
  \/ FrameFinish

NextWire ==
  \/ NextWireThread
  \/ DeadlinePasses

SpecWire == InitWire /\ [][NextWire]_vars

\* the calling thread keeps running and the steady clock keeps advancing
SpecWireFair == SpecWire /\ WF_vars(NextWireThread) /\ WF_vars(DeadlinePasses)

(***************************************************************************)
(* The pacing specification: wsi_layer_vkCreateSwapchainKHR and the         *)
(* presents of one swapchain, on the presenting thread, against the steady *)
(* clock                                                                   *)
(***************************************************************************)
\* the present mode wsi_layer_vkCreateSwapchainKHR passes to swapchain
\* init: my_create_info.presentMode is overwritten without a test
layer_present_mode(app_mode, allow_non_fifo) == "FIFO"

\* init_platform: bridge mode turns MAILBOX and IMMEDIATE into FIFO unless
\* XWL_DMABUF_BRIDGE_ALLOW_MAILBOX allows them
init_platform_present_mode(use_bridge, mode, allow_mailbox) ==
  IF use_bridge /\ mode \in {"MAILBOX", "IMMEDIATE"} /\ ~allow_mailbox
    THEN "FIFO"
    ELSE mode

\* variant: the override is taken as it is
bridge_present_fps_uncapped(env) ==
  IF env.kind \in {"unset", "empty"} THEN 60
  ELSE IF env.kind = "number" THEN env.value ELSE 0

\* fps as init_bridge_present_rate_limit computes it.  env is what getenv
\* and strtoul gave: the variable is unset, is the empty string, is a
\* number read in full, or is anything else (invalid)
bridge_present_fps(env) ==
  LET default_bridge_fps == 60
      max_supported_fps == 240
      has_env_override == env.kind \notin {"unset", "empty"}
      fps == IF env.kind = "number"
               THEN IF env.value > max_supported_fps THEN max_supported_fps ELSE env.value
               ELSE 0
  IN IF ~has_env_override THEN default_bridge_fps ELSE fps

\* init_bridge_present_rate_limit at time t; next is the value the member
\* m_bridge_next_present_time had
init_bridge_present_rate_limit(env, t, next) ==
  LET with_fps(fps) ==
        IF fps = 0
          THEN [interval_ns |-> 0, next |-> next, initialized |-> FALSE]
          ELSE [interval_ns |-> 1000000000 \div fps, next |-> t, initialized |-> TRUE]
  IN with_fps(bridge_present_fps(env))

\* variant: the next present time advances from the scheduled time
next_present_time_from_schedule(scheduled, after_wait, interval) ==
  IF after_wait > scheduled THEN scheduled + interval ELSE after_wait + interval

\* m_bridge_next_present_time = after_wait + interval
next_present_time(scheduled, after_wait, interval) == after_wait + interval

InitPacing ==
  /\ env_bridge \in BOOLEAN
  /\ InitSwapchainIdle
  /\ InitClientIdle
  /\ InitExtMemIdle
  /\ InitWireIdle
  /\ InitQueuePresentIdle
  /\ now = 0
  /\ fps_env \in [kind : {"unset", "empty", "invalid"}, value : {0}]
                   \cup [kind : {"number"}, value : {0, 120, 240, 1000}]
  /\ allow_non_fifo_env \in BOOLEAN
  /\ allow_mailbox_env \in BOOLEAN
  /\ app_present_mode \in {"FIFO", "MAILBOX", "IMMEDIATE"}
  /\ m_present_mode = "none"
  /\ m_bridge_present_interval_ns = 0
  /\ m_bridge_next_present_time = 0
  /\ m_bridge_present_rate_limit_initialized = FALSE
  /\ p_pc = "idle"
  /\ p_presents = 0
  /\ p_frame_time = 0
  /\ p_call_time = 0
  /\ p_scheduled = 0
  /\ p_slept = FALSE

\* the steady clock moves on
ClockAdvance ==
  /\ now < MaxTimeNs
  /\ now' = now + ClockStepNs
  /\ UNCHANGED <<fps_env, allow_non_fifo_env, allow_mailbox_env, app_present_mode,
                 m_present_mode, m_bridge_present_interval_ns, m_bridge_next_present_time,
                 m_bridge_present_rate_limit_initialized, p_pc, p_presents, p_frame_time,
                 p_call_time, p_scheduled, p_slept, scVars, clVars, emVars, wireVars, qpVars>>

\* wsi_layer_vkCreateSwapchainKHR for a layer-owned surface: the present
\* mode given to init (which stores it in m_present_mode), then of
\* init_platform the choice of the path, the present mode and the pacing
PacingCreateSwapchain ==
  /\ sc_state = "none"
  /\ LET use_bridge == use_xwayland_bridge(env_bridge, g_disable_xwayland_bridge_runtime)
         mode == layer_present_mode(app_present_mode, allow_non_fifo_env)
         members == [interval_ns |-> m_bridge_present_interval_ns,
                     next |-> m_bridge_next_present_time,
                     initialized |-> m_bridge_present_rate_limit_initialized]
     IN /\ m_use_xwayland_bridge' = use_bridge
        /\ m_present_mode' = init_platform_present_mode(use_bridge, mode, allow_mailbox_env)
        /\ \E rl \in {IF use_bridge
                        THEN init_bridge_present_rate_limit(fps_env, now,
                                                            m_bridge_next_present_time)
                        ELSE members} :
             /\ m_bridge_present_interval_ns' = rl.interval_ns
             /\ m_bridge_next_present_time' = rl.next
             /\ m_bridge_present_rate_limit_initialized' = rl.initialized
  /\ client' = IF env_bridge
                 THEN NewClient(SocketPath, DefaultFeedbackTimeoutMs, U32(0, 1))
                 ELSE NoClient
  /\ sc_state' = "live"
  /\ UNCHANGED <<env_bridge, g_disable_xwayland_bridge_runtime, numImages, status,
                 m_bridge_pending_unpresent, error_state, m_present_event_thread_run,
                 waiters, bg_pc, acq_pc, acq_timeout, gfb_result, pres_pc, pres_image,
                 present_result, api_present_result, dtor_pc, app_owned, acq_streak, hist,
                 ncalls, frame_ids, wire, last_ret, last_fb, fb_timed_out,
                 now, fps_env, allow_non_fifo_env, allow_mailbox_env, app_present_mode,
                 p_pc, p_presents, p_frame_time, p_call_time, p_scheduled, p_slept,
                 emVars, wireVars, qpVars>>

\* the outcomes explored here: the connection is made or not, the peer does
\* not answer the probe, and the FRAME packet is sent or not
PacingIOFor(c) ==
  {io \in SwapchainIOFor(c) : io.hello = "ok" /\ io.probe = NoFeedback /\ io.fb = NoFeedback}

\* present_image up to the pacing call: on the bridge path present_frame,
\* and after a failure the error state and the process-wide flag; on the
\* shared-memory path nothing that involves the clock
PacingPresentImage ==
  /\ sc_state = "live"
  /\ p_pc = "idle"
  /\ p_presents < MaxPresents
  /\ ~error_has_occured(error_state)
  /\ p_presents' = p_presents + 1
  /\ IF m_use_xwayland_bridge
       THEN \E io \in PacingIOFor(client) :
            \E r \in {present_frame(client, 1, TRUE, io)} :
              /\ client' = r.c
              /\ wire' = r.tx
              /\ last_ret' = r.ret
              /\ last_fb' = r.fb
              /\ fb_timed_out' = RememberTimeout(fb_timed_out, r.c, r.fb)
              /\ frame_ids' = RememberId(frame_ids, r)
              /\ ncalls' = ncalls + 1
              /\ error_state' = bridge_failure_error_state(error_state, r.ret)
              /\ g_disable_xwayland_bridge_runtime' =
                   (g_disable_xwayland_bridge_runtime \/ ~r.ret)
              /\ p_pc' = IF r.ret THEN "throttle" ELSE "idle"
              /\ p_frame_time' = IF \E k \in DOMAIN r.tx : r.tx[k].op = "FRAME"
                                   THEN now ELSE p_frame_time
       ELSE UNCHANGED <<clVars, error_state, g_disable_xwayland_bridge_runtime, p_pc,
                        p_frame_time>>
  /\ UNCHANGED <<env_bridge, sc_state, numImages, status, m_use_xwayland_bridge,
                 m_bridge_pending_unpresent, m_present_event_thread_run,
                 waiters, bg_pc, acq_pc, acq_timeout, gfb_result, pres_pc, pres_image,
                 present_result, api_present_result, dtor_pc, app_owned, acq_streak, hist,
                 now, fps_env, allow_non_fifo_env, allow_mailbox_env, app_present_mode,
                 m_present_mode, m_bridge_present_interval_ns, m_bridge_next_present_time,
                 m_bridge_present_rate_limit_initialized, p_call_time, p_scheduled, p_slept,
                 emVars, wireVars, qpVars>>

\* throttle_bridge_present_if_needed.  sleep_until returns at the time asked
\* for or later, and the clock is read again after it
PacingThrottle ==
  /\ p_pc = "throttle"
  /\ p_pc' = "idle"
  /\ IF ~m_use_xwayland_bridge \/ m_bridge_present_interval_ns = 0
       THEN UNCHANGED <<now, m_bridge_next_present_time,
                        m_bridge_present_rate_limit_initialized, p_call_time, p_scheduled,
                        p_slept>>
       ELSE IF ~m_bridge_present_rate_limit_initialized
              THEN /\ m_bridge_next_present_time' = now
                   /\ m_bridge_present_rate_limit_initialized' = TRUE
                   /\ UNCHANGED <<now, p_call_time, p_scheduled, p_slept>>
              ELSE \E late \in {0, ClockStepNs} :
                     LET sleeps == now < m_bridge_next_present_time
                         after_wait == (IF sleeps THEN m_bridge_next_present_time ELSE now)
                                         + late
                     IN /\ now' = after_wait
                        /\ m_bridge_next_present_time' =
                             next_present_time(m_bridge_next_present_time, after_wait,
                                               m_bridge_present_interval_ns)
                        /\ p_call_time' = now
                        /\ p_scheduled' = m_bridge_next_present_time
                        /\ p_slept' = sleeps
                        /\ UNCHANGED m_bridge_present_rate_limit_initialized
  /\ UNCHANGED <<fps_env, allow_non_fifo_env, allow_mailbox_env, app_present_mode,
                 m_present_mode, m_bridge_present_interval_ns, p_presents, p_frame_time,
                 scVars, clVars, emVars, wireVars, qpVars>>

NextPacing ==
  \/ ClockAdvance
  \/ PacingCreateSwapchain
  \/ PacingPresentImage
  \/ PacingThrottle

SpecPacing == InitPacing /\ [][NextPacing]_vars

(***************************************************************************)
(* The queue-present specification: one wsi_layer_vkQueuePresentKHR call   *)
(* naming layer-owned swapchains                                           *)
(***************************************************************************)
\* variant: the result of the last failed present is returned
queue_present_accumulate_last(ret, res) ==
  IF res # VK_SUCCESS THEN res ELSE ret

\* if (res != VK_SUCCESS && ret == VK_SUCCESS) ret = res
queue_present_accumulate(ret, res) ==
  IF res # VK_SUCCESS /\ ret = VK_SUCCESS THEN res ELSE ret

RECURSIVE present_each(_, _, _, _, _, _)
\* the loop over pPresentInfo->pSwapchains from index i (1-based): res is
\* what queue_present of swapchain i returned
present_each(results, i, has_results, pResults, attempted, ret) ==
  IF i > Len(results)
    THEN [ret |-> ret, pResults |-> pResults, attempted |-> attempted]
    ELSE present_each(results, i + 1, has_results,
                      IF has_results THEN [pResults EXCEPT ![i] = results[i]] ELSE pResults,
                      Append(attempted, i),
                      queue_present_accumulate(ret, results[i]))

\* wsi_layer_vkQueuePresentKHR when the layer owns every listed swapchain:
\* with more than one swapchain the wait semaphores are submitted first and
\* a failure of that submission returns at once
wsi_layer_vkQueuePresentKHR(results, has_results, pResults, wait_result) ==
  IF Len(results) > 1 /\ wait_result # VK_SUCCESS
    THEN [ret |-> wait_result, pResults |-> pResults, attempted |-> <<>>]
    ELSE present_each(results, 1, has_results, pResults, <<>>, VK_SUCCESS)

\* the call as the application makes it: 1 to MaxSwapchains swapchains, a
\* results array or none (its elements not yet written)
InitQueuePresent ==
  /\ env_bridge = FALSE
  /\ InitSwapchainIdle
  /\ InitClientIdle
  /\ InitExtMemIdle
  /\ InitWireIdle
  /\ InitPaceIdle
  /\ qp_pc = "called"
  /\ \E n \in 1 .. MaxSwapchains :
       /\ qp_swapchain_results \in
            [1 .. n -> {VK_SUCCESS, "VK_SUBOPTIMAL_KHR", VK_ERROR_OUT_OF_DATE_KHR,
                        VK_ERROR_SURFACE_LOST_KHR}]
       /\ qp_pResults = [i \in 1 .. n |-> "unset"]
  /\ qp_has_results \in BOOLEAN
  /\ qp_wait_result \in {VK_SUCCESS, "VK_ERROR_DEVICE_LOST"}
  /\ qp_attempted = <<>>
  /\ qp_ret = "none"

QueuePresentKHR ==
  /\ qp_pc = "called"
  /\ \E r \in {wsi_layer_vkQueuePresentKHR(qp_swapchain_results, qp_has_results,
                                           qp_pResults, qp_wait_result)} :
       /\ qp_ret' = r.ret
       /\ qp_pResults' = r.pResults
       /\ qp_attempted' = r.attempted
  /\ qp_pc' = "returned"
  /\ UNCHANGED <<qp_swapchain_results, qp_has_results, qp_wait_result,
                 scVars, clVars, emVars, wireVars, paceVars>>

SpecQueuePresent == InitQueuePresent /\ [][QueuePresentKHR]_vars

(***************************************************************************)
(* Properties                                                              *)
(***************************************************************************)
\* image i is inside a present_image call
InPresentation(i) == pres_pc # "idle" /\ pres_image = i

\* images that were presented successfully and have not returned to FREE
HeldBack ==
  {i \in Images : status[i] = "ACQUIRED" /\ i \notin app_owned /\ ~InPresentation(i)}

\* hist[k] is a present that failed
FailedPresentAt(k) == hist[k].op = "present" /\ ~hist[k].ok

\* C1 (as the specification states it): a present whose submission failed,
\* on the bridge path or on the shared-memory path, leaves the swapchain in
\* the error state and its image FREE, and no acquire or present succeeds
\* after it.
C1_FailedPresentSetsErrorState ==
  sc_state = "live" =>
    /\ (pres_pc = "unpresent" /\ present_result # VK_SUCCESS
          => error_has_occured(error_state))
    /\ \A k \in 1 .. Len(hist) :
         FailedPresentAt(k) =>
           /\ error_has_occured(error_state)
           /\ (k = Len(hist) => status[hist[k].image] = "FREE")
           /\ \A j \in (k + 1) .. Len(hist) : ~hist[j].ok

\* C2: in bridge mode with K images at most K-1 images are held back, and a
\* successful present that finds K-1 images held back returns the oldest of
\* them to FREE and takes its place at the back of the queue.
C2_ReleaseLag ==
  [][ (sc_state' = "live" /\ m_use_xwayland_bridge') =>
        /\ Cardinality(HeldBack') <= numImages' - 1
        /\ (/\ pres_pc = "release"
            /\ pres_pc' = "idle"
            /\ present_result = VK_SUCCESS
            /\ Len(m_bridge_pending_unpresent) = numImages - 1)
             => /\ status'[Head(m_bridge_pending_unpresent)] = "FREE"
                /\ m_bridge_pending_unpresent' =
                     Append(Tail(m_bridge_pending_unpresent), pres_image) ]_vars

\* K presents succeeded on a bridge swapchain of K images: the first image
\* presented is FREE again and the other K-1 are held back
C2_Witness ==
  /\ sc_state = "live"
  /\ m_use_xwayland_bridge
  /\ numImages > 1
  /\ ~error_has_occured(error_state)
  /\ pres_pc = "idle"
  /\ ncalls = numImages
  /\ Len(m_bridge_pending_unpresent) = numImages - 1
  /\ Cardinality(HeldBack) = numImages - 1
  /\ \E i \in Images : status[i] = "FREE"

AcquireEvent(i) == [op |-> "acquire", image |-> i, ok |-> TRUE]

PresentOk(i) == [op |-> "present", image |-> i, ok |-> TRUE]

\* a bridge swapchain of 3 images with no present and no destruction in
\* progress
ThreeImageBridge ==
  /\ sc_state = "live" /\ m_use_xwayland_bridge /\ numImages = 3
  /\ pres_pc = "idle" /\ dtor_pc = "idle"

\* C3 (as the specification states it): with 3 images in bridge mode, after
\* acquire 0, acquire 1, present 0 image 0 is still ACQUIRED, and after
\* present 1 image 0 is FREE and image 1 is not.
C3_ReleasedAtSecondPresent ==
  ThreeImageBridge =>
    /\ (hist = <<AcquireEvent(0), AcquireEvent(1), PresentOk(0)>>
          => status[0] = "ACQUIRED")
    /\ (hist = <<AcquireEvent(0), AcquireEvent(1), PresentOk(0), PresentOk(1)>>
          => status[0] = "FREE" /\ status[1] # "FREE")

\* C3 (amended): with 3 images in bridge mode, after acquire 0, acquire 1,
\* present 0 image 0 is still ACQUIRED; after present 1 images 0 and 1 are
\* both still ACQUIRED and queued in that order; image 0 returns to FREE in
\* the third successful present, the one of image 2.
C3_ReleasedAtThirdPresent ==
  /\ [](ThreeImageBridge =>
          /\ (hist = <<AcquireEvent(0), AcquireEvent(1), PresentOk(0)>>
                => status[0] = "ACQUIRED" /\ m_bridge_pending_unpresent = <<0>>)
          /\ (hist = <<AcquireEvent(0), AcquireEvent(1), PresentOk(0), PresentOk(1)>>
                => /\ status[0] = "ACQUIRED"
                   /\ status[1] = "ACQUIRED"
                   /\ m_bridge_pending_unpresent = <<0, 1>>))
  /\ [][ (/\ sc_state = "live" /\ m_use_xwayland_bridge /\ numImages = 3
          /\ m_bridge_pending_unpresent = <<0, 1>>
          /\ pres_pc = "release"
          /\ pres_pc' = "idle"
          /\ present_result = VK_SUCCESS
          /\ pres_image = 2)
           => /\ status[0] = "ACQUIRED"
              /\ status'[0] = "FREE"
              /\ m_bridge_pending_unpresent' = <<1, 2>> ]_vars

\* the two presents of the scenario are done and image 0 is still held
C3_Witness ==
  /\ ThreeImageBridge
  /\ hist = <<AcquireEvent(0), AcquireEvent(1), PresentOk(0), PresentOk(1)>>
  /\ status[0] = "ACQUIRED"
  /\ m_bridge_pending_unpresent = <<0, 1>>

\* C4: after N successful acquires with no present in between (N the image
\* count), get_free_buffer with timeout 0 never enters the wait, returns
\* VK_NOT_READY, and no image is FREE.
C4_ZeroTimeoutNotReady ==
  /\ (acq_pc = "gfb_wait" => acq_timeout # "zero")
  /\ (acq_pc = "gfb_ret" /\ acq_timeout = "zero" /\ acq_streak = numImages
        => /\ gfb_result = VK_NOT_READY
           /\ \A i \in Images : status[i] # "FREE")

\* a zero-timeout acquire has just returned from get_free_buffer after N
\* acquires in a row
C4_Witness ==
  /\ sc_state = "live"
  /\ acq_pc = "gfb_ret"
  /\ acq_timeout = "zero"
  /\ acq_streak = numImages
  /\ numImages = MaxImages
  /\ gfb_result = VK_NOT_READY

\* number of times fd occurs in the sequence of close() calls
RECURSIVE CloseCount(_, _)
CloseCount(cl, fd) ==
  IF cl = <<>> THEN 0
  ELSE (IF Head(cl) = fd THEN 1 ELSE 0) + CloseCount(Tail(cl), fd)

\* C5 (as the specification states it): after cleanup every distinct plane
\* descriptor the allocation owned has been closed exactly once, and nothing
\* else has been closed.
C5_EachFdClosedOnce ==
  em_pc = "cleaned" =>
    /\ \A p \in 1 .. m_num_planes :
         alloc_fds[p] >= 0 => CloseCount(closed, alloc_fds[p]) = 1
    /\ \A k \in 1 .. Len(closed) : \E p \in 1 .. m_num_planes : alloc_fds[p] = closed[k]

\* C6 (as the specification states it): the destructor reaches the drain of
\* the queue, the STOP packet and the destruction of the image resources
\* only after it has joined the background thread.
C6_JoinBeforeTeardown ==
  /\ (dtor_pc \in {"drain", "teardown"} => bg_pc = "joined")
  /\ (sc_state \in {"destroyed", "terminated"} => bg_pc = "joined")

\* C7 (as the specification states it): get_free_buffer with an indefinite
\* timeout returns VK_SUCCESS only with a FREE image, returns out-of-date
\* only when the background thread has been told to stop or has ended, and
\* returns nothing else.
C7_IndefiniteAcquireReturns ==
  (acq_pc = "gfb_ret" /\ acq_timeout = "infinite") =>
    /\ gfb_result \in {VK_SUCCESS, VK_ERROR_OUT_OF_DATE_KHR}
    /\ (gfb_result = VK_SUCCESS => \E i \in Images : status[i] = "FREE")
    /\ (gfb_result = VK_ERROR_OUT_OF_DATE_KHR
          => bg_pc \in {"done", "joined"} \/ dtor_pc # "idle")

\* C8: an image that is inside a present, or queued for deferred release, is
\* ACQUIRED and not in the hands of the application, so it can be neither
\* acquired nor presented again; a queued image is not inside a present; no
\* index is queued twice.
C8_OnePresentPerImage ==
  sc_state = "live" =>
    /\ \A i \in app_owned : i \in Images /\ status[i] = "ACQUIRED"
    /\ \A i \in Images : InPresentation(i) => status[i] = "ACQUIRED" /\ i \notin app_owned
    /\ \A k \in 1 .. Len(m_bridge_pending_unpresent) :
         LET i == m_bridge_pending_unpresent[k]
         IN /\ i \in Images
            /\ status[i] = "ACQUIRED"
            /\ i \notin app_owned
            /\ ~InPresentation(i)
            /\ \A j \in 1 .. Len(m_bridge_pending_unpresent) :
                 m_bridge_pending_unpresent[j] = i => j = k

\* two images wait in the queue while a third is inside a present and a
\* release by lag has already happened
C8_Witness ==
  /\ sc_state = "live"
  /\ Len(m_bridge_pending_unpresent) >= 2
  /\ pres_pc = "release"
  /\ ncalls > numImages
  /\ pres_image \notin {m_bridge_pending_unpresent[k] : k \in 1 .. Len(m_bridge_pending_unpresent)}

\* C9: the frame id present_frame assigns is never 0, and the ids of two
\* consecutive calls differ, also across the wrap of the 32-bit counter.
C9_FrameIdNonZeroNoRepeat ==
  /\ \A k \in 1 .. Len(frame_ids) : frame_ids[k] # U32Zero
  /\ (Len(frame_ids) = 2 => frame_ids[1] # frame_ids[2])

\* the counter has wrapped: 0xffffffff was followed by 1
C9_Witness == frame_ids = <<U32(Half - 1, Half - 1), U32(0, 1)>>

\* C10 (as the specification states it): no FRAME packet carries the frame
\* id reserved for HELLO.
C10_FrameIdNeverHelloId ==
  \A k \in 1 .. Len(wire) :
    wire[k].op = "FRAME" => wire[k].id # XWL_DMABUF_BRIDGE_HELLO_FRAME_ID

\* C11 as stated: once a feedback wait of present_frame has timed out, feedback
\* sync is disabled for the rest of the client's life.
C11_DisabledForClientLife ==
  (client # NoClient /\ fb_timed_out # "no") => ~client.m_feedback_sync_enabled

\* C11 for the connection: a feedback wait that times out disables feedback
\* sync, and while the connection it timed out on stays open feedback sync
\* stays disabled and no present_frame call waits for feedback.
C11_DisabledForConnectionLife ==
  [][/\ (client # NoClient /\ client' # NoClient /\ last_fb'.kind = "timeout")
          => ~client'.m_feedback_sync_enabled
     /\ (client # NoClient /\ client' # NoClient /\ fb_timed_out = "this_connection")
          => (~client'.m_feedback_sync_enabled /\ last_fb' = NoWait)]_vars

\* a later present_frame on the connection that timed out sent its frame
\* without waiting
C11_Witness ==
  /\ client # NoClient
  /\ fb_timed_out = "this_connection"
  /\ last_fb = NoWait
  /\ last_ret
  /\ \E k \in DOMAIN wire : wire[k].op = "FRAME"

\* C12: a present_frame call that sent its FRAME packet in full returns true
\* whatever the feedback wait gave (a timeout and a reply with the failure
\* flag included), and the present that made the call succeeds and leaves the
\* error state of the swapchain as it was.
C12_SentFrameIsAccepted ==
  [][(ncalls' = ncalls + 1 /\ \E k \in DOMAIN wire' : wire'[k].op = "FRAME")
       => /\ last_ret'
          /\ error_state' = error_state
          /\ present_result' = VK_SUCCESS
          /\ g_disable_xwayland_bridge_runtime' = g_disable_xwayland_bridge_runtime]_vars

\* a present whose frame was answered with the failure flag
C12_Witness ==
  /\ last_fb = [kind |-> "match", flags |-> {"FAILED"}]
  /\ last_ret
  /\ pres_pc = "throttle"
  /\ present_result = VK_SUCCESS
  /\ ~error_has_occured(error_state)

\* the packet the last pass of the running wait received has a wrong magic,
\* a wrong version or a frame id that is not the expected one
ReceivedMismatch(ev, expected_frame_id) ==
  /\ ev.kind = "packet"
  /\ \/ ev.packet.magic # XWL_DMABUF_BRIDGE_MAGIC
     \/ ev.packet.version # XWL_DMABUF_BRIDGE_VERSION
     \/ ev.packet.reserved # expected_frame_id

\* C13: a pass of a feedback wait that receives a packet with a mismatched
\* magic, a mismatched version or a frame id other than the expected one
\* drops the packet: the wait goes on, the socket stays open and the
\* negotiated feedback state (probe done, sync enabled) is unchanged.
C13_MismatchedPacketDropped ==
  [][(w_pc \in WaitPcs /\ ~(WaitTimeoutMs # 0 /\ w_expired)
        /\ ReceivedMismatch(w_event', WaitExpectedFrameId))
       => /\ w_pc' = w_pc
          /\ client' = client
          /\ client'.m_socket_fd = SockFd]_vars

\* a frame wait with feedback sync negotiated that has dropped a FEEDBACK
\* packet of another frame and is still waiting
C13_Witness ==
  /\ w_pc = "frame_wait"
  /\ w_discarded > 0
  /\ w_event.kind = "packet"
  /\ Malformations(w_event.packet) = 0
  /\ w_event.packet.reserved # w_frame_id
  /\ client.m_socket_fd = SockFd
  /\ client.m_feedback_sync_enabled

\* C14: when a system call on the bridge socket has failed (sendmsg error or
\* short send, poll error or hang-up, recv error or recv returning 0), the
\* operation that made it has returned with the socket closed and with the
\* probe-done flag and the feedback-enabled flag cleared.
C14_IOErrorResetsConnection ==
  w_event.kind \in IOErrorEvents
    => /\ w_pc \notin WaitPcs
       /\ client.m_socket_fd = -1
       /\ ~client.m_feedback_probe_done
       /\ ~client.m_feedback_sync_enabled

\* the peer closed the connection during the feedback wait of a frame
C14_Witness ==
  /\ w_pc = "frame_end"
  /\ w_event.kind = "recv_zero"
  /\ \E k \in DOMAIN wire : wire[k].op = "FRAME"
  /\ client.m_socket_fd = -1
  /\ ~client.m_feedback_probe_done
  /\ ~client.m_feedback_sync_enabled

\* C15: HELLO is the first packet sent on every connection.  A call that
\* connects (the first call, or a call after a reset) and sends a FRAME or a
\* STOP has sent HELLO first, and it leaves the connection open only after
\* HELLO was sent on it; a call that finds the socket connected sends its
\* FRAME or STOP on a connection whose probe has been performed.
C15_HelloFirst ==
  [][(client # NoClient /\ client' # NoClient)
       => /\ \A k \in DOMAIN wire' :
               wire'[k].op \in {"FRAME", "STOP"}
                 => IF client.m_socket_fd < 0
                      THEN k > 1 /\ wire'[1] = HelloPacket
                      ELSE client.m_feedback_probe_done
          /\ (client.m_socket_fd < 0 /\ client'.m_socket_fd >= 0)
               => (wire' # <<>> /\ wire'[1] = HelloPacket)]_vars

\* a call that reconnected after a reset and sent HELLO and then its FRAME
C15_Witness ==
  /\ client # NoClient
  /\ fb_timed_out = "earlier_connection"
  /\ client.m_socket_fd >= 0
  /\ Len(wire) = 2
  /\ wire[1] = HelloPacket
  /\ wire[2].op = "FRAME"

\* C16: when the capability probe of a fresh connection is over, feedback
\* sync is enabled exactly when the probe wait returned, before its deadline,
\* a FEEDBACK packet that carries the HELLO sentinel id and the capability
\* bit.
C16_SyncIffProbeAnswered ==
  [][(w_pc \in {"probe_send", "probe_end"} /\ w_pc' = "frame_send")
       => (client'.m_feedback_sync_enabled
             <=> /\ w_ret'
                 /\ ~w_expired'
                 /\ w_event'.kind = "packet"
                 /\ w_event'.packet.opcode = XWL_DMABUF_BRIDGE_OP_FEEDBACK
                 /\ w_event'.packet.reserved = XWL_DMABUF_BRIDGE_HELLO_FRAME_ID
                 /\ "CAP_SYNC" \in w_event'.packet.flags)]_vars

\* the probe of a fresh connection was answered with the capability bit
C16_Witness ==
  /\ w_pc = "frame_send"
  /\ wire = <<HelloPacket>>
  /\ w_event.kind = "packet"
  /\ w_event.packet.reserved = XWL_DMABUF_BRIDGE_HELLO_FRAME_ID
  /\ "CAP_SYNC" \in w_event.packet.flags
  /\ client.m_feedback_sync_enabled

\* C17: on a client whose connection attempt has failed, every later call
\* leaves the client unconnected and the failure remembered, present_frame
\* returns false, and stop_stream and present_frame send nothing.
C17_NoReconnectAfterFailure ==
  [][(client # NoClient /\ client' # NoClient /\ client.m_connect_failed)
       => /\ client'.m_connect_failed
          /\ client'.m_socket_fd < 0
          /\ ~last_ret'
          /\ wire' = <<>>]_vars

\* present_frame calls made after the connection attempt failed
C17_Witness ==
  /\ client # NoClient
  /\ client.m_connect_failed
  /\ client.m_socket_fd < 0
  /\ Len(frame_ids) = 2
  /\ ncalls = MaxCalls
  /\ ~last_ret
  /\ wire = <<>>

\* C18: every feedback wait (the probe wait of 100 ms, the frame wait of the
\* configured timeout, 0 ms included) returns, whatever the peer sends.
C18_WaitTerminates == (w_pc \in WaitPcs) ~> (w_pc \notin WaitPcs)

\* C19: a present whose present_frame call returned false sets the
\* process-wide disable flag; the flag, once set, is never cleared; and a
\* swapchain created while it is set uses the shared-memory path although
\* the bridge socket path is configured.
C19_BridgeDisabledForProcess ==
  [][/\ (ncalls' = ncalls + 1 /\ ~last_ret') => g_disable_xwayland_bridge_runtime'
     /\ g_disable_xwayland_bridge_runtime => g_disable_xwayland_bridge_runtime'
     /\ (g_disable_xwayland_bridge_runtime /\ sc_state # "live" /\ sc_state' = "live")
          => ~m_use_xwayland_bridge']_vars

\* a swapchain created after a bridge failure, with the bridge configured
C19_Witness ==
  /\ g_disable_xwayland_bridge_runtime
  /\ env_bridge
  /\ sc_state = "live"
  /\ client # NoClient
  /\ ~m_use_xwayland_bridge
  /\ ncalls = 0

TimerPacing ==
  /\ sc_state = "live"
  /\ m_use_xwayland_bridge
  /\ m_bridge_present_interval_ns # 0
  /\ m_bridge_present_rate_limit_initialized

\* C22: a call of the rate limiter with timer pacing in force sleeps only
\* when the clock is before the next-allowed-present time, asks to sleep until
\* a time that is at most one interval after the call, and sets the
\* next-allowed-present time to the clock value read after the sleep plus one
\* interval, whether the sleep ended on time or late.
C22_NextFromActualWake ==
  [][(TimerPacing /\ p_pc = "throttle" /\ p_pc' = "idle")
       => /\ p_call_time' = now
          /\ p_scheduled' = m_bridge_next_present_time
          /\ p_slept' = (p_call_time' < p_scheduled')
          /\ p_slept' => (p_scheduled' - p_call_time' <= m_bridge_present_interval_ns
                            /\ now' >= p_scheduled')
          /\ now' >= now
          /\ m_bridge_next_present_time' = now' + m_bridge_present_interval_ns]_vars

\* a pacing call made right after the previous one slept a whole interval,
\* woke up late, and counted the next interval from the late wake-up
C22_Witness ==
  /\ TimerPacing
  /\ p_pc = "idle"
  /\ p_presents >= 2
  /\ p_slept
  /\ p_scheduled - p_call_time = m_bridge_present_interval_ns
  /\ now > p_scheduled
  /\ m_bridge_next_present_time = now + m_bridge_present_interval_ns
  /\ m_bridge_next_present_time # p_scheduled + m_bridge_present_interval_ns

\* C23 (as the specification states it): with timer pacing in force no FRAME
\* packet is sent while the clock is before the next-allowed-present time:
\* the pacing wait of a present comes before its FRAME.
C23_PacedBeforeFrame ==
  (TimerPacing /\ p_pc = "throttle") => p_frame_time >= m_bridge_next_present_time

\* C24: on a bridge swapchain the pacing rate is the frames-per-second
\* override when XWL_DMABUF_BRIDGE_MAX_FPS holds a number (a number above 240
\* counts as 240, and 0 turns timer pacing off: no interval, no sleep), and
\* 60 frames per second when the variable is unset or empty, for every
\* present mode the application selected.
C24_PacingRate ==
  (sc_state = "live" /\ m_use_xwayland_bridge) =>
    /\ fps_env.kind \in {"unset", "empty"}
         => m_bridge_present_interval_ns = 16666666 /\ TimerPacing
    /\ (fps_env.kind = "number" /\ fps_env.value = 0)
         => /\ m_bridge_present_interval_ns = 0
            /\ ~TimerPacing
            /\ ~p_slept
            /\ m_bridge_next_present_time = 0
    /\ (fps_env.kind = "number" /\ fps_env.value > 0 /\ fps_env.value <= 240)
         => m_bridge_present_interval_ns = 1000000000 \div fps_env.value /\ TimerPacing
    /\ (fps_env.kind = "number" /\ fps_env.value > 240)
         => m_bridge_present_interval_ns = 4166666 /\ TimerPacing

\* an application that selected MAILBOX runs with an override of 1000 frames
\* per second and has been paced at 240
C24_Witness ==
  /\ sc_state = "live"
  /\ m_use_xwayland_bridge
  /\ app_present_mode = "MAILBOX"
  /\ fps_env = [kind |-> "number", value |-> 1000]
  /\ m_bridge_present_interval_ns = 4166666
  /\ p_presents >= 2
  /\ p_slept

\* the allocator returned a descriptor for every plane
AllPlanesHaveFd == \A p \in 1 .. m_num_planes : alloc_fds[p] >= 0

PlaneFdSet == {alloc_fds[p] : p \in 1 .. m_num_planes}

\* C25: after an allocation that returned a descriptor for each of its 1 to
\* 4 planes, the recorded number of memories is the number of distinct plane
\* descriptors and the image is disjoint exactly when that number is greater
\* than 1; [5,5,6,6] gives 2 memories and a disjoint image, [5,5,5,5] gives 1
\* memory and a non-disjoint image.
C25_MemoriesAreDistinctFds ==
  (em_pc \notin {"unused", "created"} /\ AllPlanesHaveFd) =>
    /\ m_num_memories = Cardinality(PlaneFdSet)
    /\ is_disjoint(m_num_memories) <=> (m_num_memories > 1)
    /\ alloc_fds = <<5, 5, 6, 6>> => (m_num_memories = 2 /\ is_disjoint(m_num_memories))
    /\ alloc_fds = <<5, 5, 5, 5>> => (m_num_memories = 1 /\ ~is_disjoint(m_num_memories))

\* the allocation with plane descriptors [5,5,6,6] has been recorded
C25_Witness ==
  /\ em_pc = "allocated"
  /\ alloc_fds = <<5, 5, 6, 6>>
  /\ m_buffer_fds = alloc_fds
  /\ m_num_memories = 2

\* C26 (as the specification states it): after import and bind of a disjoint
\* image each distinct plane descriptor has been imported exactly once and
\* every plane has a bind info with its own plane aspect, its own offset and
\* the memory imported from its own descriptor; for a non-disjoint image
\* there is one import and one bind.
C26_EachPlaneBoundToItsMemory ==
  (em_pc = "bound" /\ AllPlanesHaveFd) =>
    IF is_disjoint(m_num_memories)
      THEN /\ Len(imports) = Cardinality(PlaneFdSet)
           /\ \A fd \in PlaneFdSet :
                Cardinality({k \in DOMAIN imports : imports[k].fd = fd}) = 1
           /\ \A p \in 1 .. m_num_planes :
                \E k \in DOMAIN binds :
                  /\ binds[k].planeAspect = p - 1
                  /\ binds[k].memoryOffset = p - 1
                  /\ binds[k].memory = alloc_fds[p]
      ELSE Len(imports) = 1 /\ Len(binds) = 1

\* C27: every import that reached the driver handed it a duplicate, a
\* descriptor that is none of the plane descriptors; the manager has closed
\* the duplicate exactly when the import failed; the import path closes no
\* plane descriptor, and until cleanup the manager holds the plane
\* descriptors as the allocator returned them.
C27_DupClosedIffImportFails ==
  /\ \A k \in DOMAIN imports :
       /\ imports[k].ret => imports[k].import_fd >= 0
       /\ imports[k].import_fd >= 0
            => /\ imports[k].import_fd \notin PlaneFdSet
               /\ imports[k].import_fd # imports[k].fd
               /\ (imports[k].closed = <<imports[k].import_fd>>) <=> ~imports[k].ret
               /\ imports[k].ret => imports[k].closed = <<>>
       /\ imports[k].import_fd < 0 => imports[k].closed = <<>>
       /\ \A j \in DOMAIN imports[k].closed : imports[k].closed[j] \notin PlaneFdSet
  /\ em_pc \in {"allocated", "bound", "bind_failed", "import_failed"}
       => (closed = <<>> /\ m_buffer_fds = alloc_fds)

\* the import of a disjoint image whose first memory was imported and whose
\* second import failed in the driver: the first duplicate is with the
\* driver, the second one was closed
C27_Witness ==
  /\ em_pc = "import_failed"
  /\ Len(imports) = 2
  /\ imports[1].ret
  /\ imports[1].closed = <<>>
  /\ ~imports[2].ret
  /\ imports[2].import_fd >= 0
  /\ imports[2].closed = <<imports[2].import_fd>>
  /\ closed = <<>>

\* C28: whatever the state of the client and whatever the system calls would
\* answer, a present_frame call with zero planes or with more than 4 planes
\* returns failure, sends no packet, assigns no frame id and leaves the
\* client (its socket, its frame-id counter and its connection flags) as it
\* was.
C28_BadPlaneCountRejected ==
  client # NoClient =>
    \A np \in {0, 5, 6}, valid \in BOOLEAN, io \in ClientIOFor(client) :
      \E r \in {present_frame(client, np, valid, io)} :
        /\ ~r.ret
        /\ r.tx = <<>>
        /\ ~r.assigned
        /\ r.fb = NoWait
        /\ r.c = client

\* the first call of an enabled client was rejected for its plane count: no
\* frame id was assigned, nothing was sent, the client is not connected
C28_Witness ==
  /\ client # NoClient
  /\ is_enabled(client)
  /\ ncalls = 1
  /\ frame_ids = <<>>
  /\ ~last_ret
  /\ wire = <<>>
  /\ client.m_socket_fd = -1
  /\ ~client.m_connect_failed
  /\ ~client.m_feedback_probe_done

\* C29 (as the specification states it): a created swapchain has present
\* mode FIFO when WSI_ALLOW_NON_FIFO_PRESENT_MODE is not 1, and the present
\* mode the application selected when it is 1.
C29_PresentModeFollowsEnv ==
  sc_state = "live" =>
    /\ ~allow_non_fifo_env => m_present_mode = "FIFO"
    /\ allow_non_fifo_env => m_present_mode = app_present_mode

\* C30 (as the specification states it): an acquire that is blocked with an
\* indefinite timeout while an image is FREE eventually leaves the wait,
\* without a further call of the application.
C30_NoLostWakeup ==
  (/\ sc_state = "live"
   /\ acq_pc = "gfb_wait"
   /\ acq_timeout = "infinite"
   /\ free_image_found(status))
    ~> (acq_pc # "gfb_wait")

\* C31 (as the specification states it): get_free_buffer with a non-zero
\* timeout returns out-of-date only when the background thread has been
\* stopped (the destructor has begun or the thread has left its loop), never
\* while the freshly spawned thread has not yet set its running flag.
C31_OutOfDateOnlyAfterStop ==
  (/\ acq_pc = "gfb_ret"
   /\ acq_timeout \in {"infinite", "finite"}
   /\ gfb_result = VK_ERROR_OUT_OF_DATE_KHR)
    => /\ bg_pc # "spawned"
       /\ bg_pc \in {"done", "joined"} \/ dtor_pc # "idle"

C33_SendOnlyWhenConnected ==
  client # NoClient =>
    \A io \in ClientIOFor(client) :
      \E e \in {ensure_connected(client, io)} :
        e.ret => e.c.m_socket_fd >= 0

\* C34: whenever feedback sync is enabled the client has a valid socket and
\* the capability probe of that connection has been made.
C34_SyncImpliesConnectedAndProbed ==
  (client # NoClient /\ client.m_feedback_sync_enabled) =>
    /\ client.m_socket_fd >= 0
    /\ client.m_feedback_probe_done
    /\ ~client.m_connect_failed

\* a client that connected in a call and whose probe enabled feedback sync
C34_Witness ==
  /\ client # NoClient
  /\ ncalls > 0
  /\ client.m_feedback_sync_enabled
  /\ client.m_socket_fd >= 0
  /\ client.m_feedback_probe_done

\* C35: the step of present_image in which a bridge present fails empties
\* the deferred-release queue and makes every image that was in it FREE; the
\* step in which the failed present returns makes the image of the present
\* FREE; and once it has returned, the swapchain in the error state has an
\* empty queue and every image the application does not hold is FREE.
C35_FailedPresentReleasesAll ==
  /\ [](( /\ sc_state = "live"
          /\ m_use_xwayland_bridge
          /\ error_has_occured(error_state)
          /\ pres_pc = "idle")
          => /\ m_bridge_pending_unpresent = <<>>
             /\ \A i \in Images \ app_owned : status[i] = "FREE")
  /\ [][ /\ (m_use_xwayland_bridge /\ pres_pc # "unpresent" /\ pres_pc' = "unpresent")
            => /\ m_bridge_pending_unpresent' = <<>>
               /\ error_has_occured(error_state')
               /\ \A k \in DOMAIN m_bridge_pending_unpresent :
                    status'[m_bridge_pending_unpresent[k]] = "FREE"
         /\ (m_use_xwayland_bridge /\ pres_pc = "unpresent" /\ pres_pc' = "idle")
            => /\ status'[pres_image] = "FREE"
               /\ m_bridge_pending_unpresent' = <<>> ]_vars

\* a bridge present failed after an earlier one had succeeded and left its
\* image in the queue; the failed present has returned and all images are FREE
C35_Witness ==
  /\ sc_state = "live"
  /\ m_use_xwayland_bridge
  /\ error_has_occured(error_state)
  /\ pres_pc = "idle"
  /\ ncalls >= 2
  /\ ~last_ret
  /\ m_bridge_pending_unpresent = <<>>
  /\ app_owned = {}
  /\ \A i \in Images : status[i] = "FREE"

\* C36 (as the specification states it): a swapchain on the shared-memory
\* path has, from its creation to the end of its destruction, put no packet
\* on the wire and holds no bridge socket.
C36_ShmSwapchainSendsNothing ==
  (sc_state \in {"live", "destroyed", "terminated"} /\ ~m_use_xwayland_bridge) =>
    /\ wire = <<>>
    /\ client # NoClient => client.m_socket_fd < 0

\* C37 (as the specification states it): on a bridge swapchain created with
\* XWL_DMABUF_BRIDGE_MAX_FPS set to something that is not a number, timer
\* pacing is in force with the interval of 60 frames per second.
C37_InvalidOverrideUsesDefault ==
  (sc_state = "live" /\ m_use_xwayland_bridge /\ fps_env.kind = "invalid") =>
    /\ m_bridge_present_interval_ns = 16666666
    /\ TimerPacing

\* what the loop over the swapchains gives: the first result in list order
\* that is not VK_SUCCESS, VK_SUCCESS when there is none
FirstNonSuccess(results) ==
  IF \A i \in DOMAIN results : results[i] = VK_SUCCESS
    THEN VK_SUCCESS
    ELSE results[CHOOSE i \in DOMAIN results :
                   /\ results[i] # VK_SUCCESS
                   /\ \A j \in 1 .. (i - 1) : results[j] = VK_SUCCESS]

\* C38 (as the specification states it): a returned call has attempted the
\* present on every listed swapchain in list order, has stored each
\* swapchain's result in the results array when there is one, and has
\* returned the first result that is not success.
C38_EverySwapchainPresented ==
  qp_pc = "returned" =>
    /\ qp_attempted = [i \in DOMAIN qp_swapchain_results |-> i]
    /\ qp_has_results => qp_pResults = qp_swapchain_results
    /\ qp_ret = FirstNonSuccess(qp_swapchain_results)

\* C38 (amended): the same for a call that names one swapchain or whose
\* submission of the wait semaphores succeeded; a call that names several
\* swapchains and whose submission of the wait semaphores failed returns that
\* failure, has attempted no present and has written no result.
C38_EverySwapchainPresentedAfterWait ==
  qp_pc = "returned" =>
    IF Len(qp_swapchain_results) > 1 /\ qp_wait_result # VK_SUCCESS
      THEN /\ qp_attempted = <<>>
           /\ qp_ret = qp_wait_result
           /\ \A i \in DOMAIN qp_pResults : qp_pResults[i] = "unset"
      ELSE /\ qp_attempted = [i \in DOMAIN qp_swapchain_results |-> i]
           /\ qp_has_results => qp_pResults = qp_swapchain_results
           /\ ~qp_has_results => \A i \in DOMAIN qp_pResults : qp_pResults[i] = "unset"
           /\ qp_ret = FirstNonSuccess(qp_swapchain_results)

\* a call naming three swapchains of which the first and the third failed
\* has returned: all three were attempted, the results array holds the three
\* results and the call returned the first failure
C38_Witness ==
  /\ qp_pc = "returned"
  /\ qp_swapchain_results =
       <<VK_ERROR_OUT_OF_DATE_KHR, VK_SUCCESS, VK_ERROR_SURFACE_LOST_KHR>>
  /\ qp_has_results
  /\ qp_attempted = <<1, 2, 3>>
  /\ qp_pResults = qp_swapchain_results
  /\ qp_ret = VK_ERROR_OUT_OF_DATE_KHR

====
